---- MODULE Spec2Model ----
(***************************************************************************)
(* State-machine model of the videodb-capture-quickstart repository.       *)
(*                                                                         *)
(* The repository holds several independent programs.  Each behaviour of   *)
(* the model follows ONE of them, named by the variable `program`:         *)
(*   quickstart_backend   apps/quickstart/python-quickstart/backend.py     *)
(*   openclaw_backend     examples/openclaw-monitoring/backend.py          *)
(*   async_recorder       examples/async-recorder/server/app/api/routes.py *)
(*   async_recorder_two_users   the same, with a second registration       *)
(*   async_recorder_api   the /api endpoints of the same routes.py          *)
(*   async_recorder_tunnel  examples/async-recorder/server/app/core/tunnel.py *)
(*   *_init_session       POST /init-session of the two Flask backends      *)
(*   quickstart_client    apps/quickstart/python-quickstart/client.py      *)
(*   simple_client        quickstart/python-quickstart/client.py           *)
(*   monitoring_client    examples/openclaw-monitoring/start_monitoring.py *)
(*   listen_*             the four WebSocket receive loops, each alone     *)
(* The remote platform (SDK calls, WebSocket, database commit) is the      *)
(* environment: every remote call either succeeds or raises, chosen        *)
(* nondeterministically.                                                   *)
(***************************************************************************)
EXTENDS Integers, Sequences, FiniteSets, Bags, TLC

\* ------------------------------------------------------------------ bounds
MaxDeliveries == 2      \* webhook deliveries handled in one behaviour (Flask)
MaxStreams == 2         \* streams the platform reports per category
MaxSession == 2         \* capture session ids 1..MaxSession (0: key absent)
MaxExports == 3         \* webhook deliveries handled in one behaviour (recorder)
MaxVideo == 2           \* exported video ids 1..MaxVideo (0: absent or empty)
MaxUrl == 1             \* stream / player urls 1..MaxUrl (0: absent)
MaxUsers == 1           \* rows of the user table
NumHandlers == 2        \* request-handler slots of the recorder
MaxMsgs == 2            \* messages one receive loop takes in one behaviour
MaxInitRequests == 3    \* POST /init-session requests in one behaviour
MaxApiRequests == 2     \* requests to the recorder's /api endpoints
MaxStatusRequests == 3  \* GET /api/tunnel/status requests in one behaviour
MaxRegistered == 2      \* rows of the user table (async_recorder_two_users)
MaxExportsTwoUsers == 2 \* webhook deliveries (async_recorder_two_users)

VARIABLES
    program,            \* which program of the repository this behaviour runs
    \* ---- Flask backends: request thread of POST /webhook
    hpc,                \* position of the request handler
    req,                \* the payload being handled / last handled
    resp,               \* the HTTP response of the last finished delivery
    aborted,            \* the except-branch of the active handling was taken
    ci,                 \* index of the stream category being set up
    ai,                 \* index into ALERTS inside setup_alerts
    ws_id,              \* handler local: id taken from the handoff queue
    event_id,           \* setup_alerts local
    streams,            \* get_rtstream answers: category -> number of streams
    deliveries,         \* number of deliveries received so far
    \* ---- Flask backends: listener threads and the platform
    listeners,          \* one record per thread started by start_ws_listener
    calls,              \* indexing / alert calls issued to the platform
    platformEvents,     \* events known to the platform (conn.list_events())
    nextWs,             \* next WebSocket connection id the platform hands out
    \* ---- async-recorder: database, webhook handlers, background tasks
    rows,               \* table recordings, in id order (id = position)
    users,              \* table users, in id order: the stored api_key
    rh,                 \* webhook request handlers: slot -> record
    tasks,              \* background tasks added by the webhook handler
    \* ---- capture client (apps/quickstart client.run_capture)
    cpc,                \* position in run_capture
    stop_event,         \* asyncio.Event set by handle_signal
    binary_already_exited,
    cleanup_done,       \* asyncio.Event set at the end of the cleanup
    remote,             \* calls made on the CaptureClient, in order
    slept,              \* asyncio.sleep durations of the cleanup, in order
    \* ---- one WebSocket receive loop
    received,           \* messages the loop has taken from ws.receive()
    printed,            \* what it printed, in order
    \* ---- Flask backends: request thread of POST /init-session
    ipc,                \* position of init_session
    init_requests,      \* number of requests received so far
    sdk,                \* SDK calls made by init_session, in order
    init_resp,          \* the HTTP response of the last finished request
    \* ---- async-recorder: request thread of the /api endpoints
    apc,                \* position of the request
    areq,               \* the request being handled / last handled
    aresp,              \* the HTTP response of the last finished request
    api_requests,       \* number of requests received so far
    api_calls,          \* videodb_service calls made by the endpoints, in order
    \* ---- async-recorder: TunnelManager over the life of the server
    tpc,                \* position in startup_event / shutdown_event
    WEBHOOK_URL,        \* settings.WEBHOOK_URL
    tunnel,             \* TunnelManager._tunnel and its process
    public_url,         \* TunnelManager._public_url
    start_result,       \* what TunnelManager.start() returned
    runtime_json,       \* webhook_url of each runtime.json written, in order
    tunnel_status,      \* answers of GET /api/tunnel/status, in order
    \* ---- capture clients without a cleanup block
    vpc,                \* position in run_capture
    vremote,            \* calls made on the CaptureClient, in order
    store,              \* the defaults whose store attribute was set
    caffeinate          \* the caffeinate process of start_monitoring

handlerLocals == <<ci, ai, ws_id, event_id, streams>>
flaskVars == <<hpc, req, resp, aborted, ci, ai, ws_id, event_id, streams,
               deliveries, listeners, calls, platformEvents, nextWs>>
recorderVars == <<rows, users, rh, tasks>>
clientVars == <<cpc, stop_event, binary_already_exited, cleanup_done, remote,
                slept>>
listenVars == <<received, printed>>
initSessionVars == <<ipc, init_requests, sdk, init_resp>>
apiVars == <<apc, areq, aresp, api_requests, api_calls>>
tunnelVars == <<tpc, WEBHOOK_URL, tunnel, public_url, start_result,
                runtime_json, tunnel_status>>
variantVars == <<vpc, vremote, store, caffeinate>>
nonFlaskVars == <<recorderVars, clientVars, listenVars, initSessionVars,
                  apiVars,
    tunnelVars,
    variantVars>>
nonRecorderVars == <<flaskVars, clientVars, listenVars, initSessionVars,
                     apiVars,
    tunnelVars,
    variantVars>>
nonClientVars == <<flaskVars, recorderVars, listenVars, initSessionVars,
                   apiVars,
    tunnelVars,
    variantVars>>
nonListenVars == <<flaskVars, recorderVars, clientVars, initSessionVars,
                   apiVars,
    tunnelVars,
    variantVars>>
nonInitSessionVars == <<flaskVars, recorderVars, clientVars, listenVars,
                        apiVars,
    tunnelVars,
    variantVars>>
\* The /api endpoints share the tables rows and users with the webhook
\* handler; everything else of the other programs is foreign to them.
nonApiVars == <<flaskVars, rh, tasks, clientVars, listenVars,
                initSessionVars, tunnelVars,
    variantVars>>
nonTunnelVars == <<flaskVars, recorderVars, clientVars, listenVars,
                   initSessionVars, apiVars, variantVars>>
nonVariantVars == <<flaskVars, recorderVars, clientVars, listenVars,
                    initSessionVars, apiVars, tunnelVars>>
vars == <<program, flaskVars, recorderVars, clientVars, listenVars,
          initSessionVars, apiVars, tunnelVars, variantVars>>

\* ---------------------------------------------------------------- programs
FlaskPrograms == {"quickstart_backend", "openclaw_backend"}

\* The webhook side of the async-recorder, explored twice: with one
\* registered user over MaxExports deliveries, and with up to MaxRegistered
\* users over MaxExportsTwoUsers deliveries.
RecorderPrograms == {"async_recorder", "async_recorder_two_users"}
UsersBound ==
    IF program = "async_recorder_two_users" THEN MaxRegistered ELSE MaxUsers
ExportsBound ==
    IF program = "async_recorder_two_users" THEN MaxExportsTwoUsers
    ELSE MaxExports

\* ------------------------------------------------------- webhook payloads
\* event: "absent" is a payload without the key, "null" is {"event": null}.
KnownEvents == {"capture_session.active", "capture_session.stopping",
                "capture_session.stopped", "capture_session.exported"}
EventValues == {"absent", "null", "other"} \cup KnownEvents
\* kind: what the request body is: empty, not JSON, JSON that is no object
\* (a list, a string, a number, null), or a JSON object.
MalformedKinds == {"empty", "invalid", "nonobject"}

Ok == [status |-> 200, received |-> TRUE]
Error(s) == [status |-> s, received |-> FALSE]
NoResp == [status |-> 0, received |-> FALSE]
NoReq == [kind |-> "none", event |-> "absent", sid |-> 0, data |-> "object"]

\* capture_session_id is only handed to the platform: absent or an id.
\* data: "object" is a payload whose "data" is an object or is missing
\* (data.get("data", {}) is then a dict), "nonobject" one whose "data" is
\* null or another value without .get; only the exported branch reads it.
FlaskBodies ==
    [kind : MalformedKinds, event : {"absent"}, sid : {0}, data : {"object"}]
    \cup [kind : {"object"}, event : EventValues, sid : {0, MaxSession},
          data : {"object"}]
    \cup [kind : {"object"}, event : {"capture_session.exported"},
          sid : {0, MaxSession}, data : {"nonobject"}]

\* request.json on a body that is empty or is not JSON: werkzeug raises
\* BadRequest (400) or UnsupportedMediaType (415), or returns None, in which
\* case data.get raises AttributeError (500).  Which one depends on the
\* Content-Type header and the Flask version; none is a success.
RequestJsonFailure == {400, 415, 500}

\* ------------------------------------------------------ stream categories
\* HandledCategories with the mic block missing from the quickstart backend.
HandledCategoriesWithoutMic(p) == <<"system_audio", "screen">>

HandledCategories(p) ==
    IF p = "quickstart_backend"
    THEN <<"system_audio", "mic", "screen">>
    ELSE <<"system_audio", "screen">>

AudioCategories == {"system_audio", "mic"}

\* ALERTS of the openclaw backend: the configured labels, in order.
ALERTS == <<"agent-error", "browser-open">>

\* A call of the handler on the SDK; create_alert carries the event_id the
\* loop of setup_alerts holds.
Call(op, cat, ws, ok) ==
    [op |-> op, cat |-> cat, ws |-> ws, delivery |-> deliveries, ok |-> ok,
     event |-> IF op = "create_alert" THEN event_id ELSE 0]

Listener(cat) ==
    [cat |-> cat, delivery |-> deliveries, state |-> "connecting", ws |-> 0,
     queue |-> <<>>, handoff |-> "waiting"]

\* The listener the handler is currently waiting for: the last one started.
Current == Len(listeners)

NoStreams == [c \in {"system_audio", "mic", "screen"} |-> 0]

InitFlask ==
    /\ hpc = "idle"
    /\ req = NoReq
    /\ resp = NoResp
    /\ aborted = FALSE
    /\ ci = 0
    /\ ai = 0
    /\ ws_id = 0
    /\ event_id = 0
    /\ streams = NoStreams
    /\ deliveries = 0
    /\ listeners = <<>>
    /\ calls = <<>>
    /\ platformEvents = <<>>
    /\ nextWs = 1

\* ---------------------------------------------- Flask: the request thread
\* An except-branch that resumes the setup at the category it was at, as
\* a try/except inside each category block would.
AbortAndResume ==
    /\ aborted' = TRUE
    /\ resp' = resp
    /\ hpc' = "category"

\* The except-branch of the active handling: print, then fall through to
\* the final `return jsonify({"received": True})`.
Abort ==
    /\ aborted' = TRUE
    /\ resp' = Ok
    /\ hpc' = "done"

\* FlaskDispatch without the `event not in [...]` acknowledgement: a name
\* outside the list, and the informational events, are refused.
FlaskDispatchRefusesOthers(body) ==
    IF body.kind \in {"empty", "invalid"} THEN "json_failure"
    ELSE IF body.kind = "nonobject" THEN "attribute_error"
    ELSE IF body.event \in {"absent", "null"} THEN "acknowledged"
    ELSE IF body.event = "capture_session.active" THEN "active"
    ELSE IF body.event = "capture_session.exported"
    THEN (IF body.data = "object" THEN "acknowledged" ELSE "attribute_error")
    ELSE "attribute_error"

\* FlaskDispatch with data["event"] in place of data.get("event"): a
\* payload without the key raises KeyError.
FlaskDispatchSubscript(body) ==
    IF body.kind \in {"empty", "invalid"} THEN "json_failure"
    ELSE IF body.kind = "nonobject" THEN "attribute_error"
    ELSE IF body.event = "absent" THEN "attribute_error"
    ELSE IF body.event = "null" THEN "acknowledged"
    ELSE IF body.event \notin KnownEvents THEN "acknowledged"
    ELSE IF body.event = "capture_session.active" THEN "active"
    ELSE IF body.event = "capture_session.exported" /\ body.data # "object"
    THEN "attribute_error"
    ELSE "acknowledged"

\* POST /webhook, how the request is dispatched.  request.json fails on a
\* body that is empty or not JSON; data.get raises AttributeError on JSON
\* that is no object; a missing or null event is acknowledged, so is an
\* event outside the four known names; stopping and stopped only print;
\* exported prints the fields of data.get("data", {}), whose .get raises
\* AttributeError when "data" is no object.
FlaskDispatch(body) ==
    IF body.kind \in {"empty", "invalid"} THEN "json_failure"
    ELSE IF body.kind = "nonobject" THEN "attribute_error"
    ELSE IF body.event \in {"absent", "null"} THEN "acknowledged"
    ELSE IF body.event \notin KnownEvents THEN "acknowledged"
    ELSE IF body.event = "capture_session.active" THEN "active"
    ELSE IF body.event = "capture_session.exported" /\ body.data # "object"
    THEN "attribute_error"
    ELSE "acknowledged"

\* webhook with a memory of what it has set up: once listeners exist, a
\* capture_session.active delivery is acknowledged without another setup.
webhook_remembering(body) ==
    /\ program \in FlaskPrograms
    /\ hpc = "idle"
    /\ deliveries < MaxDeliveries
    /\ deliveries' = deliveries + 1
    /\ req' = body
    /\ aborted' = FALSE
    /\ IF FlaskDispatch(body) = "json_failure"
       THEN /\ \E s \in RequestJsonFailure : resp' = Error(s)
            /\ hpc' = "done"
       ELSE IF FlaskDispatch(body) = "attribute_error"
       THEN /\ resp' = Error(500)
            /\ hpc' = "done"
       ELSE IF FlaskDispatch(body) = "active" /\ listeners = <<>>
       THEN /\ resp' = NoResp
            /\ hpc' = "get_capture_session"
       ELSE /\ resp' = Ok
            /\ hpc' = "done"
    /\ UNCHANGED <<program, handlerLocals, listeners, calls, platformEvents,
                   nextWs, nonFlaskVars>>

\* POST /webhook up to the dispatch on the event name.  Every branch but
\* capture_session.active returns in the same step.
webhook(body) ==
    /\ program \in FlaskPrograms
    /\ hpc = "idle"
    /\ deliveries < MaxDeliveries
    /\ deliveries' = deliveries + 1
    /\ req' = body
    /\ aborted' = FALSE
    /\ IF FlaskDispatch(body) = "json_failure"
       THEN /\ \E s \in RequestJsonFailure : resp' = Error(s)
            /\ hpc' = "done"
       ELSE IF FlaskDispatch(body) = "attribute_error"
       THEN /\ resp' = Error(500)
            /\ hpc' = "done"
       ELSE IF FlaskDispatch(body) = "active"
       THEN /\ resp' = NoResp
            /\ hpc' = "get_capture_session"
       ELSE /\ resp' = Ok
            /\ hpc' = "done"
    /\ UNCHANGED <<program, handlerLocals, listeners, calls, platformEvents,
                   nextWs, nonFlaskVars>>

\* session = conn.get_capture_session(capture_session_id)
get_capture_session ==
    /\ program \in FlaskPrograms
    /\ hpc = "get_capture_session"
    /\ \/ /\ hpc' = "get_rtstream"
          /\ UNCHANGED <<resp, aborted>>
       \/ Abort
    /\ UNCHANGED <<program, req, deliveries, handlerLocals, listeners, calls,
                   platformEvents, nextWs, nonFlaskVars>>

\* session.get_rtstream(...) for every category the variant handles.
\* streams is what the session holds; the handler reads the categories of
\* HandledCategories only.
get_rtstream ==
    /\ program \in FlaskPrograms
    /\ hpc = "get_rtstream"
    /\ \/ /\ \E n \in [{"system_audio", "mic", "screen"} -> 0..MaxStreams] :
                streams' = n
          /\ ci' = 1
          /\ hpc' = "category"
          /\ UNCHANGED <<resp, aborted>>
       \/ /\ Abort
          /\ UNCHANGED <<streams, ci>>
    /\ UNCHANGED <<program, req, deliveries, ai, ws_id, event_id, listeners,
                   calls, platformEvents, nextWs, nonFlaskVars>>

\* `if system_audios:` / `if mics:` / `if displays:` found false.
skip_category ==
    /\ program \in FlaskPrograms
    /\ hpc = "category"
    /\ ci <= Len(HandledCategories(program))
    /\ streams[HandledCategories(program)[ci]] = 0
    /\ ci' = ci + 1
    /\ UNCHANGED <<program, hpc, req, resp, aborted, deliveries, ai, ws_id,
                   event_id, streams, listeners, calls, platformEvents,
                   nextWs, nonFlaskVars>>

\* q = queue.Queue(); start_ws_listener(q, name=...): one thread for the
\* category, whatever the number of streams in it (only [0] is indexed).
start_ws_listener ==
    /\ program \in FlaskPrograms
    /\ hpc = "category"
    /\ ci <= Len(HandledCategories(program))
    /\ streams[HandledCategories(program)[ci]] > 0
    /\ listeners' = Append(listeners, Listener(HandledCategories(program)[ci]))
    /\ hpc' = "queue_get"
    /\ UNCHANGED <<program, req, resp, aborted, deliveries, handlerLocals,
                   calls, platformEvents, nextWs, nonFlaskVars>>

\* queue_get that takes the item off the queue but does not assign ws_id.
queue_get_stale ==
    /\ program \in FlaskPrograms
    /\ hpc = "queue_get"
    /\ listeners[Current].queue # <<>>
    /\ listeners' = [listeners EXCEPT
                        ![Current].queue = Tail(@),
                        ![Current].handoff = "taken"]
    /\ hpc' = IF listeners[Current].cat = "screen"
              THEN "index_visuals" ELSE "start_transcript"
    /\ UNCHANGED <<program, req, resp, aborted, deliveries, ci, ai, ws_id,
                   event_id, streams, calls, platformEvents, nextWs,
                   nonFlaskVars>>

\* ws_id = q.get(timeout=10), an item being there within the 10 seconds.
queue_get ==
    /\ program \in FlaskPrograms
    /\ hpc = "queue_get"
    /\ listeners[Current].queue # <<>>
    /\ ws_id' = Head(listeners[Current].queue)
    /\ listeners' = [listeners EXCEPT
                        ![Current].queue = Tail(@),
                        ![Current].handoff = "taken"]
    /\ hpc' = IF listeners[Current].cat = "screen"
              THEN "index_visuals" ELSE "start_transcript"
    /\ UNCHANGED <<program, req, resp, aborted, deliveries, ci, ai, event_id,
                   streams, calls, platformEvents, nextWs, nonFlaskVars>>

\* queue_timeout with queue.Empty caught next to the get: the handler goes
\* on with ws_id = None.
queue_timeout_caught ==
    /\ program \in FlaskPrograms
    /\ hpc = "queue_get"
    /\ listeners[Current].queue = <<>>
    /\ listeners' = [listeners EXCEPT ![Current].handoff = "timeout"]
    /\ ws_id' = 0
    /\ hpc' = IF listeners[Current].cat = "screen"
              THEN "index_visuals" ELSE "start_transcript"
    /\ UNCHANGED <<program, req, resp, aborted, deliveries, ci, ai, event_id,
                   streams, calls, platformEvents, nextWs, nonFlaskVars>>

\* queue_timeout with the failure kept to the category: the handler goes
\* on with the next category.
queue_timeout_isolated ==
    /\ program \in FlaskPrograms
    /\ hpc = "queue_get"
    /\ listeners[Current].queue = <<>>
    /\ listeners' = [listeners EXCEPT ![Current].handoff = "timeout"]
    /\ ci' = ci + 1
    /\ hpc' = "category"
    /\ UNCHANGED <<program, req, resp, aborted, deliveries, ai, ws_id,
                   event_id, streams, calls, platformEvents, nextWs,
                   nonFlaskVars>>

\* q.get(timeout=10) raising queue.Empty: the 10 seconds passed with nothing
\* on the queue.  The exception reaches the handler's except-branch.
queue_timeout ==
    /\ program \in FlaskPrograms
    /\ hpc = "queue_get"
    /\ listeners[Current].queue = <<>>
    /\ listeners' = [listeners EXCEPT ![Current].handoff = "timeout"]
    /\ Abort
    /\ UNCHANGED <<program, req, deliveries, handlerLocals, calls,
                   platformEvents, nextWs, nonFlaskVars>>

\* One indexing call of the handler on the category's first stream.  The
\* call is issued with the handler's ws_id; it either returns (next) or
\* raises (the except-branch).
IndexingCall(at, op, next) ==
    /\ program \in FlaskPrograms
    /\ hpc = at
    /\ \E ok \in BOOLEAN :
          /\ calls' = Append(calls, Call(op, listeners[Current].cat, ws_id, ok))
          /\ IF ok
             THEN /\ hpc' = next
                  /\ UNCHANGED <<resp, aborted>>
             ELSE Abort
    /\ UNCHANGED <<program, req, deliveries, ws_id, event_id, streams,
                   listeners, platformEvents, nextWs, nonFlaskVars>>

\* sys_audio.start_transcript(ws_connection_id=ws_id)
start_transcript ==
    /\ IndexingCall("start_transcript", "start_transcript", "index_audio")
    /\ UNCHANGED <<ci, ai>>

\* sys_audio.index_audio(prompt=..., ws_connection_id=ws_id, batch_config=...)
index_audio ==
    /\ IndexingCall("index_audio", "index_audio", "category")
    /\ ci' = IF hpc' = "category" THEN ci + 1 ELSE ci
    /\ UNCHANGED ai

\* display.index_visuals(prompt=..., ws_connection_id=ws_id); the openclaw
\* backend goes on to setup_alerts(visual_index, ws_id).
index_visuals ==
    /\ IndexingCall("index_visuals", "index_visuals",
                    IF program = "openclaw_backend"
                    THEN "setup_alerts" ELSE "category")
    /\ ci' = IF hpc' = "category" THEN ci + 1 ELSE ci
    /\ ai' = IF hpc' = "setup_alerts" THEN 1 ELSE ai

\* A loop that finds no event whatever the platform holds.
ExistingEventIgnored(label) == 0

\* The event with the label, as the loop over conn.list_events() finds it:
\* the first one, 0 when there is none.
ExistingEvent(label) ==
    IF \E i \in 1..Len(platformEvents) : platformEvents[i].label = label
    THEN platformEvents[CHOOSE i \in 1..Len(platformEvents) :
            /\ platformEvents[i].label = label
            /\ \A j \in 1..(i - 1) : platformEvents[j].label # label].event_id
    ELSE 0

\* setup_alerts, one round of the loop up to create_alert: list the events,
\* reuse the one with the label or create it.  list_events and create_event
\* may raise.
setup_alerts_event ==
    /\ program = "openclaw_backend"
    /\ hpc = "setup_alerts"
    /\ ai <= Len(ALERTS)
    /\ \/ /\ ExistingEvent(ALERTS[ai]) # 0
          /\ event_id' = ExistingEvent(ALERTS[ai])
          /\ hpc' = "create_alert"
          /\ UNCHANGED <<platformEvents, resp, aborted>>
       \/ /\ ExistingEvent(ALERTS[ai]) = 0
          /\ event_id' = Len(platformEvents) + 1
          /\ platformEvents' = Append(platformEvents,
                [label |-> ALERTS[ai], event_id |-> Len(platformEvents) + 1])
          /\ hpc' = "create_alert"
          /\ UNCHANGED <<resp, aborted>>
       \/ /\ Abort
          /\ UNCHANGED <<event_id, platformEvents>>
    /\ UNCHANGED <<program, req, deliveries, ci, ai, ws_id, streams,
                   listeners, calls, nextWs, nonFlaskVars>>

\* visual_index.create_alert(event_id=..., callback_url=..., ws_connection_id=ws_id)
create_alert ==
    /\ program = "openclaw_backend"
    /\ IndexingCall("create_alert", "create_alert", "setup_alerts")
    /\ ai' = IF hpc' = "setup_alerts" THEN ai + 1 ELSE ai
    /\ UNCHANGED ci

\* setup_alerts returns after the last configured alert.
setup_alerts_return ==
    /\ program = "openclaw_backend"
    /\ hpc = "setup_alerts"
    /\ ai > Len(ALERTS)
    /\ hpc' = "category"
    /\ ci' = ci + 1
    /\ UNCHANGED <<program, req, resp, aborted, deliveries, ai, ws_id,
                   event_id, streams, listeners, calls, platformEvents,
                   nextWs, nonFlaskVars>>

\* The try-block ran to its end: return jsonify({"received": True}).
webhook_return ==
    /\ program \in FlaskPrograms
    /\ hpc = "category"
    /\ ci > Len(HandledCategories(program))
    /\ resp' = Ok
    /\ hpc' = "done"
    /\ UNCHANGED <<program, req, aborted, deliveries, handlerLocals,
                   listeners, calls, platformEvents, nextWs, nonFlaskVars>>

\* The response is sent and the request thread is free again; the
\* handler's locals are gone.
respond ==
    /\ program \in FlaskPrograms
    /\ hpc = "done"
    /\ hpc' = "idle"
    /\ req' = NoReq
    /\ resp' = NoResp
    /\ aborted' = FALSE
    /\ ci' = 0
    /\ ai' = 0
    /\ ws_id' = 0
    /\ event_id' = 0
    /\ streams' = NoStreams
    /\ UNCHANGED <<program, deliveries, listeners, calls, platformEvents,
                   nextWs, nonFlaskVars>>

\* listener_connect with ws_id_queue.put in a finally: a failed connect
\* puts None on the queue.
listener_connect_always_puts(i) ==
    /\ program \in FlaskPrograms
    /\ listeners[i].state = "connecting"
    /\ \/ /\ listeners' = [listeners EXCEPT
                              ![i].state = "receiving",
                              ![i].ws = nextWs,
                              ![i].queue = Append(@, nextWs)]
          /\ nextWs' = nextWs + 1
       \/ /\ listeners' = [listeners EXCEPT ![i].state = "dead",
                                            ![i].queue = Append(@, 0)]
          /\ UNCHANGED nextWs
    /\ UNCHANGED <<program, hpc, req, resp, aborted, deliveries,
                   handlerLocals, calls, platformEvents, nonFlaskVars>>

\* ------------------------------------------- Flask: the listener threads
\* run()/listen() up to the receive loop: connect the WebSocket, read its
\* connection_id and put it on the handoff queue.  A failed connect goes to
\* the except-branch, which ends the thread.
listener_connect(i) ==
    /\ program \in FlaskPrograms
    /\ listeners[i].state = "connecting"
    /\ \/ /\ listeners' = [listeners EXCEPT
                              ![i].state = "receiving",
                              ![i].ws = nextWs,
                              ![i].queue = Append(@, nextWs)]
          /\ nextWs' = nextWs + 1
       \/ /\ listeners' = [listeners EXCEPT ![i].state = "dead"]
          /\ UNCHANGED nextWs
    /\ UNCHANGED <<program, hpc, req, resp, aborted, deliveries,
                   handlerLocals, calls, platformEvents, nonFlaskVars>>

\* listener_exit with a reconnect loop around listen(): the thread goes
\* back to connecting.
listener_exit_reconnects(i) ==
    /\ program \in FlaskPrograms
    /\ listeners[i].state = "receiving"
    /\ listeners' = [listeners EXCEPT ![i].state = "connecting"]
    /\ UNCHANGED <<program, hpc, req, resp, aborted, deliveries,
                   handlerLocals, calls, platformEvents, nextWs, nonFlaskVars>>

\* The receive loop ends: ws.receive() raised, or the stream closed.  The
\* thread returns; nothing restarts it.
listener_exit(i) ==
    /\ program \in FlaskPrograms
    /\ listeners[i].state = "receiving"
    /\ listeners' = [listeners EXCEPT ![i].state = "dead"]
    /\ UNCHANGED <<program, hpc, req, resp, aborted, deliveries,
                   handlerLocals, calls, platformEvents, nextWs, nonFlaskVars>>

NextFlask ==
    \/ \E body \in FlaskBodies : webhook(body)
    \/ get_capture_session
    \/ get_rtstream
    \/ skip_category
    \/ start_ws_listener
    \/ queue_get
    \/ queue_timeout
    \/ start_transcript
    \/ index_audio
    \/ index_visuals
    \/ setup_alerts_event
    \/ create_alert
    \/ setup_alerts_return
    \/ webhook_return
    \/ respond
    \/ \E i \in 1..Len(listeners) : listener_connect(i)
    \/ \E i \in 1..Len(listeners) : listener_exit(i)

\* ======================================================== async-recorder
\* Payloads of POST /api/webhook.  Only capture_session.exported reads the
\* data object; the other events are drawn without it.  An exported
\* payload carries both urls (the player url being a page for the stream
\* url) or neither.
RecorderBodies ==
    [kind : MalformedKinds, event : {"absent"}, sid : {0}, video : {0},
     stream : {0}, player : {0}]
    \cup [kind : {"object"}, event : EventValues \ {"capture_session.exported"},
          sid : 0..MaxSession, video : {0}, stream : {0}, player : {0}]
    \cup {b \in [kind : {"object"}, event : {"capture_session.exported"},
                  sid : 0..MaxSession, video : 0..MaxVideo,
                  stream : 0..MaxUrl, player : 0..MaxUrl] :
             b.player = b.stream}

NoRecorderReq ==
    [kind |-> "none", event |-> "absent", sid |-> 0, video |-> 0,
     stream |-> 0, player |-> 0]

\* class Recording, the columns the handlers read or write.
Recording(id, video_id, stream_url, player_url, session_id) ==
    [id |-> id, video_id |-> video_id, stream_url |-> stream_url,
     player_url |-> player_url, session_id |-> session_id,
     insights_status |-> "pending"]

NoRow == Recording(0, 0, 0, 0, 0)

Handlers == 1..NumHandlers

\* A request handler: its position, payload, response, the recording it
\* loaded or created and the branch it took.  n counts the requests of the
\* slot; at_receipt records, for the properties, what the table held when
\* the request arrived.
NothingAtReceipt == [rows |-> 0, video |-> FALSE, session |-> FALSE]

IdleHandler ==
    [pc |-> "idle", req |-> NoRecorderReq, resp |-> NoResp, n |-> 0,
     recording |-> NoRow, branch |-> "none", at_receipt |-> NothingAtReceipt]

\* The urls index_video's add_subtitle returns, and the player url with its
\* url= parameter replaced by it.
SubtitleUrl == MaxUrl + 1
SubtitledPlayerUrl == MaxUrl + 2

InitRecorder ==
    /\ rows = <<>>
    /\ users = <<>>
    /\ rh = [h \in Handlers |-> IdleHandler]
    /\ tasks = EmptyBag

\* FirstBySession without the filter: the first row of the table.
FirstOfAnySession(sid) == IF rows = <<>> THEN NoRow ELSE rows[1]

\* db.query(Recording).filter(Recording.session_id == session_id).first():
\* the first row with the session id; session_id None compares as IS NULL.
\* NoRow when no row matches.
FirstBySession(sid) ==
    IF \E i \in 1..Len(rows) : rows[i].session_id = sid
    THEN rows[CHOOSE i \in 1..Len(rows) :
            /\ rows[i].session_id = sid
            /\ \A j \in 1..(i - 1) : rows[j].session_id # sid]
    ELSE NoRow

\* FirstByVideo without the duplicate check: nothing is ever found.
FirstByVideoUnchecked(video_id) == NoRow

\* db.query(Recording).filter(Recording.video_id == video_id).first()
FirstByVideo(video_id) ==
    IF \E i \in 1..Len(rows) : rows[i].video_id = video_id
    THEN rows[CHOOSE i \in 1..Len(rows) :
            /\ rows[i].video_id = video_id
            /\ \A j \in 1..(i - 1) : rows[j].video_id # video_id]
    ELSE NoRow

\* UpdatedRecording without the assignment of player_url.
UpdatedRecordingKeepsPlayer(recording, r) ==
    [recording EXCEPT !.video_id = r.video,
                      !.stream_url = r.stream,
                      !.insights_status = "pending"]

\* The handler's assignments to the recording it found, as committed.
UpdatedRecording(recording, r) ==
    [recording EXCEPT !.video_id = r.video,
                      !.stream_url = r.stream,
                      !.player_url = r.player,
                      !.insights_status = "pending"]

RECURSIVE RequestsUpTo(_)
RequestsUpTo(h) == IF h = 0 THEN 0 ELSE rh[h].n + RequestsUpTo(h - 1)
RecorderDeliveries == RequestsUpTo(NumHandlers)

\* handle_webhook up to the first database query: how the request is
\* dispatched.  request.json() fails on an empty or non-JSON body (inner
\* except: acknowledged); body.get fails on JSON that is no object and
\* event_type.startswith fails on a null event (outer except: HTTP 500);
\* a missing event is 'unknown'.
RecorderDispatch(body) ==
    IF body.kind \in {"empty", "invalid"} THEN "acknowledged"
    ELSE IF body.kind = "nonobject" THEN "error"
    ELSE IF body.event = "null" THEN "error"
    ELSE IF body.event # "capture_session.exported" THEN "acknowledged"
    ELSE IF body.video = 0 THEN "acknowledged"
    ELSE "exported"

\* Handlers that run interleaved with one another: what a handler with an
\* await between its queries and its commit, or a second server process,
\* would give.
HandlersInterleave == TRUE

\* handle_webhook is a coroutine (async def) whose only await is
\* `await request.json()`; the queries and commits after it are blocking
\* calls, and run.py starts one server process.  The event loop therefore
\* runs no other handler between a handler's reading of the body and its
\* return: a handler gets going only when no handler is in flight.
\* Background tasks are threads and do run in between.
NoHandlerInFlight == \A h \in Handlers : rh[h].pc = "idle"

\* handle_webhook from the body being read to the first database query, in
\* the lowest free slot.  Every branch but an exported event with a video
\* id returns in the same step.
handle_webhook(h, body) ==
    /\ program \in RecorderPrograms
    /\ rh[h].pc = "idle"
    /\ \A g \in 1..(h - 1) : rh[g].pc # "idle"
    /\ NoHandlerInFlight
    /\ RecorderDeliveries < ExportsBound
    /\ LET start == [IdleHandler EXCEPT
                        !.req = body,
                        !.n = rh[h].n + 1,
                        !.at_receipt =
                            [rows |-> Len(rows),
                             video |-> \E i \in 1..Len(rows) :
                                          rows[i].video_id = body.video,
                             session |-> \E i \in 1..Len(rows) :
                                          rows[i].session_id = body.sid]]
       IN  rh' = [rh EXCEPT ![h] =
                IF RecorderDispatch(body) = "acknowledged"
                THEN [start EXCEPT !.pc = "done", !.resp = Ok]
                ELSE IF RecorderDispatch(body) = "error"
                THEN [start EXCEPT !.pc = "done", !.resp = Error(500)]
                ELSE [start EXCEPT !.pc = "lookup_session"]]
    /\ UNCHANGED <<program, rows, users, tasks, nonRecorderVars>>

\* recording = db.query(Recording).filter(session_id == ...).first()
lookup_session(h) ==
    /\ program \in RecorderPrograms
    /\ rh[h].pc = "lookup_session"
    /\ rh' = [rh EXCEPT
                ![h].recording = FirstBySession(rh[h].req.sid),
                ![h].pc = IF FirstBySession(rh[h].req.sid) # NoRow
                          THEN "update" ELSE "lookup_video"]
    /\ UNCHANGED <<program, rows, users, tasks, nonRecorderVars>>

\* `if recording:` branch: assign the payload's fields, db.commit().  A
\* commit that raises reaches the outer except: HTTP 500, nothing stored.
update_recording(h) ==
    /\ program \in RecorderPrograms
    /\ rh[h].pc = "update"
    /\ \/ /\ rows' = [rows EXCEPT ![rh[h].recording.id] =
                        UpdatedRecording(@, rh[h].req)]
          /\ rh' = [rh EXCEPT ![h].pc = "schedule", ![h].branch = "updated"]
       \/ /\ rh' = [rh EXCEPT ![h].pc = "done", ![h].resp = Error(500)]
          /\ UNCHANGED rows
    /\ UNCHANGED <<program, users, tasks, nonRecorderVars>>

\* A handler without the duplicate check: it goes on to the insert
\* whatever the table holds.
lookup_video_unchecked(h) ==
    /\ program \in RecorderPrograms
    /\ rh[h].pc = "lookup_video"
    /\ rh' = [rh EXCEPT ![h].pc = "insert"]
    /\ UNCHANGED <<program, rows, users, tasks, nonRecorderVars>>

\* existing = db.query(Recording).filter(video_id == ...).first()
lookup_video(h) ==
    /\ program \in RecorderPrograms
    /\ rh[h].pc = "lookup_video"
    /\ rh' = [rh EXCEPT ![h] =
                IF FirstByVideo(rh[h].req.video) # NoRow
                THEN [@ EXCEPT !.pc = "done", !.resp = Ok,
                               !.branch = "duplicate"]
                ELSE [@ EXCEPT !.pc = "insert"]]
    /\ UNCHANGED <<program, rows, users, tasks, nonRecorderVars>>

\* recording = Recording(...); db.add; db.commit; db.refresh
create_recording(h) ==
    /\ program \in RecorderPrograms
    /\ rh[h].pc = "insert"
    /\ \/ /\ rows' = Append(rows,
                        Recording(Len(rows) + 1, rh[h].req.video,
                                  rh[h].req.stream, rh[h].req.player,
                                  rh[h].req.sid))
          /\ rh' = [rh EXCEPT ![h].pc = "schedule",
                              ![h].branch = "created",
                              ![h].recording = rows'[Len(rows')]]
       \/ /\ rh' = [rh EXCEPT ![h].pc = "done", ![h].resp = Error(500)]
          /\ UNCHANGED rows
    /\ UNCHANGED <<program, users, tasks, nonRecorderVars>>

\* The response is sent; the request's session and objects are dropped.
send_response(h) ==
    /\ program \in RecorderPrograms
    /\ rh[h].pc = "done"
    /\ rh' = [rh EXCEPT ![h] = [IdleHandler EXCEPT !.n = rh[h].n]]
    /\ UNCHANGED <<program, rows, users, tasks, nonRecorderVars>>

\* The api_key of the user registered first, 0 when the table is empty.
OldestApiKey == IF users = <<>> THEN 0 ELSE users[1]

\* user = db.query(User).order_by(User.id.desc()).first(): its api_key, 0
\* when the table is empty.
MostRecentApiKey == IF users = <<>> THEN 0 ELSE users[Len(users)]

\* `if user and user.api_key and recording.video_id:` add the background
\* task; then return {"status": "ok", "received": True}.  recording.video_id
\* is read after the commit, so it is the stored value.
schedule_indexing(h) ==
    /\ program \in RecorderPrograms
    /\ rh[h].pc = "schedule"
    /\ LET stored == rows[rh[h].recording.id]
       IN  tasks' = IF MostRecentApiKey # 0 /\ stored.video_id # 0
                    THEN tasks (+) SetToBag({[recording_id |-> stored.id,
                                              video_id |-> stored.video_id,
                                              api_key |-> MostRecentApiKey,
                                              pc |-> "scheduled"]})
                    ELSE tasks
    /\ rh' = [rh EXCEPT ![h].pc = "done", ![h].resp = Ok]
    /\ UNCHANGED <<program, rows, users, nonRecorderVars>>

\* POST /api/register: a new user row with the next id; the i-th
\* registration stores api key i.
register ==
    /\ program \in RecorderPrograms \cup {"async_recorder_api"}
    /\ Len(users) < UsersBound
    /\ users' = Append(users, Len(users) + 1)
    /\ UNCHANGED <<program, rows, rh, tasks, nonRecorderVars>>

\* The background tasks are independent threads: a bag of task records.
\* A task that moves on, and a task that ended and is gone.
Moved(t, pc) == (tasks (-) SetToBag({t})) (+) SetToBag({[t EXCEPT !.pc = pc]})
Ended(t) == tasks (-) SetToBag({t})

\* process_indexing_background up to index_video: load the recording, set
\* insights_status processing, commit.  A raising commit goes to except.
indexing_start(t) ==
    /\ program \in RecorderPrograms
    /\ t.pc = "scheduled"
    /\ \/ /\ rows' = [rows EXCEPT
                        ![t.recording_id].insights_status = "processing"]
          /\ tasks' = Moved(t, "indexing")
       \/ /\ tasks' = Moved(t, "except")
          /\ UNCHANGED rows
    /\ UNCHANGED <<program, users, rh, nonRecorderVars>>

\* The row after `result = index_video(...)` and the assignments that
\* follow: result is "none" (None), "plain" (no subtitle_url) or
\* "subtitled".
Indexed(row, result) ==
    IF result = "none" THEN [row EXCEPT !.insights_status = "failed"]
    ELSE IF result = "plain" THEN [row EXCEPT !.insights_status = "ready"]
    ELSE [row EXCEPT !.insights_status = "ready",
                     !.stream_url = SubtitleUrl,
                     !.player_url = IF row.player_url # 0
                                    THEN SubtitledPlayerUrl ELSE SubtitleUrl]

\* index_video and the second commit.
indexing_finish(t) ==
    /\ program \in RecorderPrograms
    /\ t.pc = "indexing"
    /\ \/ /\ \E result \in {"none", "plain", "subtitled"} :
                rows' = [rows EXCEPT ![t.recording_id] =
                            Indexed(@, result)]
          /\ tasks' = Ended(t)
       \/ /\ tasks' = Moved(t, "except")
          /\ UNCHANGED rows
    /\ UNCHANGED <<program, users, rh, nonRecorderVars>>

\* except-branch: query the recording again, set failed, commit; a second
\* failure is swallowed by the bare except.
indexing_except(t) ==
    /\ program \in RecorderPrograms
    /\ t.pc = "except"
    /\ \/ rows' = [rows EXCEPT
                     ![t.recording_id].insights_status = "failed"]
       \/ UNCHANGED rows
    /\ tasks' = Ended(t)
    /\ UNCHANGED <<program, users, rh, nonRecorderVars>>

NextRecorder ==
    \/ \E h \in Handlers, body \in RecorderBodies : handle_webhook(h, body)
    \/ \E h \in Handlers : lookup_session(h)
    \/ \E h \in Handlers : update_recording(h)
    \/ \E h \in Handlers : lookup_video(h)
    \/ \E h \in Handlers : create_recording(h)
    \/ \E h \in Handlers : schedule_indexing(h)
    \/ \E h \in Handlers : send_response(h)
    \/ register
    \/ \E t \in BagToSet(tasks) : indexing_start(t)
    \/ \E t \in BagToSet(tasks) : indexing_finish(t)
    \/ \E t \in BagToSet(tasks) : indexing_except(t)

\* ============================= capture client: run_capture and its cleanup
\* Default channels list_channels() can report, one per category.
ChannelCategories == {"mic", "display", "system_audio"}

\* asyncio.sleep grace periods of the cleanup, by the stop attempt's end.
GraceAcknowledged == 3
GraceTimedOut == 3
GraceError == 3

RemoteCall(op, channels, outcome) ==
    [op |-> op, channels |-> channels, outcome |-> outcome]

InitClient ==
    /\ cpc = "request_permission_microphone"
    /\ stop_event = FALSE
    /\ binary_already_exited = FALSE
    /\ cleanup_done = FALSE
    /\ remote = <<>>
    /\ slept = <<>>

\* handle_signal: SIGINT / SIGTERM sets stop_event, at any time.
handle_signal ==
    /\ program = "quickstart_client"
    /\ cpc # "returned"
    /\ ~stop_event
    /\ stop_event' = TRUE
    /\ UNCHANGED <<program, cpc, binary_already_exited, cleanup_done, remote,
                   slept, nonClientVars>>

\* One awaited call of the try-body: it returns (next) or raises, and every
\* exception of the body ends in the finally-block, i.e. at stop_capture.
BodyCall(at, op, channels, next) ==
    /\ program = "quickstart_client"
    /\ cpc = at
    /\ \E outcome \in {"ok", "raised"} :
          /\ remote' = Append(remote, RemoteCall(op, channels, outcome))
          /\ cpc' = IF outcome = "ok" THEN next ELSE "stop_capture"
    /\ UNCHANGED <<program, stop_event, binary_already_exited, cleanup_done,
                   slept, nonClientVars>>

\* await client.request_permission("microphone")
request_permission_microphone ==
    BodyCall("request_permission_microphone", "request_permission", {"mic"},
             "request_permission_screen_capture")

\* await client.request_permission("screen_capture")
request_permission_screen_capture ==
    BodyCall("request_permission_screen_capture", "request_permission",
             {"display"}, "list_channels")

\* list_channels whose `return` for no channels stands outside the try:
\* run_capture is left without the cleanup.
list_channels_returns_early ==
    /\ program = "quickstart_client"
    /\ cpc = "list_channels"
    /\ \/ \E found \in SUBSET ChannelCategories :
             /\ remote' = Append(remote, RemoteCall("list_channels", found, "ok"))
             /\ cpc' = IF found = {} THEN "returned"
                       ELSE "start_capture_session"
       \/ /\ remote' = Append(remote, RemoteCall("list_channels", {}, "raised"))
          /\ cpc' = "stop_capture"
    /\ UNCHANGED <<program, stop_event, binary_already_exited, cleanup_done,
                   slept, nonClientVars>>

\* channels = await client.list_channels(); selected_channels keeps the
\* defaults that exist; with none the body returns (into the finally).
list_channels ==
    /\ program = "quickstart_client"
    /\ cpc = "list_channels"
    /\ \/ \E found \in SUBSET ChannelCategories :
             /\ remote' = Append(remote, RemoteCall("list_channels", found, "ok"))
             /\ cpc' = IF found = {} THEN "stop_capture"
                       ELSE "start_capture_session"
       \/ /\ remote' = Append(remote, RemoteCall("list_channels", {}, "raised"))
          /\ cpc' = "stop_capture"
    /\ UNCHANGED <<program, stop_event, binary_already_exited, cleanup_done,
                   slept, nonClientVars>>

\* The channels the last list_channels() reported.
selected_channels == remote[Len(remote)].channels

\* await client.start_capture_session(capture_session_id=..., channels=...)
start_capture_session ==
    BodyCall("start_capture_session", "start_capture_session",
             selected_channels, "wait")

\* await stop_event.wait(): returns once the event is set; CancelledError
\* and KeyboardInterrupt are caught and end in the finally-block as well.
wait_stop_event ==
    /\ program = "quickstart_client"
    /\ cpc = "wait"
    /\ cpc' = "stop_capture"
    /\ UNCHANGED <<program, stop_event, binary_already_exited, cleanup_done,
                   remote, slept, nonClientVars>>

\* stop_capture whose TimeoutError branch does not set
\* binary_already_exited.
stop_capture_unmarked ==
    /\ program = "quickstart_client"
    /\ cpc = "stop_capture"
    /\ \E outcome \in {"ok", "timeout", "raised"} :
          /\ remote' = Append(remote, RemoteCall("stop_capture", {}, outcome))
          /\ cpc' = "sleep"
    /\ UNCHANGED <<program, stop_event, binary_already_exited, cleanup_done,
                   slept, nonClientVars>>

\* finally: await asyncio.wait_for(client.stop_capture(), timeout=5.0).
\* Acknowledged, timed out (binary_already_exited = True) or raised.
stop_capture ==
    /\ program = "quickstart_client"
    /\ cpc = "stop_capture"
    /\ \E outcome \in {"ok", "timeout", "raised"} :
          /\ remote' = Append(remote, RemoteCall("stop_capture", {}, outcome))
          /\ binary_already_exited' = (outcome = "timeout")
          /\ cpc' = "sleep"
    /\ UNCHANGED <<program, stop_event, cleanup_done, slept, nonClientVars>>

\* The grace period slept in the branch the stop attempt ended in.
GracePeriod(outcome) ==
    IF outcome = "ok" THEN GraceAcknowledged
    ELSE IF outcome = "timeout" THEN GraceTimedOut
    ELSE GraceError

\* grace_sleep that returns from the skip-branch of the inner finally.
grace_sleep_returns ==
    /\ program = "quickstart_client"
    /\ cpc = "sleep"
    /\ slept' = Append(slept, GracePeriod(remote[Len(remote)].outcome))
    /\ cpc' = IF binary_already_exited THEN "returned" ELSE "shutdown"
    /\ UNCHANGED <<program, stop_event, binary_already_exited, cleanup_done,
                   remote, nonClientVars>>

\* await asyncio.sleep(3), then the inner finally: shutdown is skipped when
\* binary_already_exited.
grace_sleep ==
    /\ program = "quickstart_client"
    /\ cpc = "sleep"
    /\ slept' = Append(slept, GracePeriod(remote[Len(remote)].outcome))
    /\ cpc' = IF binary_already_exited THEN "cleanup_done" ELSE "shutdown"
    /\ UNCHANGED <<program, stop_event, binary_already_exited, cleanup_done,
                   remote, nonClientVars>>

\* shutdown whose timeout and exception leave run_capture at once, past
\* cleanup_done.set().
shutdown_propagating ==
    /\ program = "quickstart_client"
    /\ cpc = "shutdown"
    /\ \E outcome \in {"ok", "timeout", "raised"} :
          /\ remote' = Append(remote, RemoteCall("shutdown", {}, outcome))
          /\ cpc' = IF outcome = "ok" THEN "cleanup_done" ELSE "returned"
    /\ UNCHANGED <<program, stop_event, binary_already_exited, cleanup_done,
                   slept, nonClientVars>>

\* await asyncio.wait_for(client.shutdown(), timeout=3.0); a timeout and an
\* exception are both swallowed.
shutdown ==
    /\ program = "quickstart_client"
    /\ cpc = "shutdown"
    /\ \E outcome \in {"ok", "timeout", "raised"} :
          remote' = Append(remote, RemoteCall("shutdown", {}, outcome))
    /\ cpc' = "cleanup_done"
    /\ UNCHANGED <<program, stop_event, binary_already_exited, cleanup_done,
                   slept, nonClientVars>>

\* cleanup_done.set(), the last statement of the outer finally; run_capture
\* returns.
set_cleanup_done ==
    /\ program = "quickstart_client"
    /\ cpc = "cleanup_done"
    /\ cleanup_done' = TRUE
    /\ cpc' = "returned"
    /\ UNCHANGED <<program, stop_event, binary_already_exited, remote, slept,
                   nonClientVars>>

NextClient ==
    \/ handle_signal
    \/ request_permission_microphone
    \/ request_permission_screen_capture
    \/ list_channels
    \/ start_capture_session
    \/ wait_stop_event
    \/ stop_capture
    \/ grace_sleep
    \/ shutdown
    \/ set_cleanup_done

\* ==================================================== the receive loops
ListenPrograms ==
    {"listen_quickstart", "listen_openclaw", "listen_minimal", "listen_try"}

Channels == {"transcript", "audio_index", "scene_index", "visual_index",
             "alert", "capture_session", "other"}

\* A message of ws.receive(): its channel and, of its data, is_final
\* (absent, true, false) and text (absent, only blanks, or words).
Messages ==
    [channel : Channels, is_final : {"absent", "true", "false"},
     text : {"absent", "blank", "words"}]

\* data.get("is_final", False)
IsFinal(msg) == msg.is_final = "true"

\* data.get("text", "").strip() is not empty
TextStripped(msg) == msg.text = "words"

\* backend.py (quickstart) start_ws_listener, the body of the loop
PrintsQuickstart(msg) ==
    /\ msg.channel \in {"transcript", "audio_index", "scene_index",
                        "visual_index"}
    /\ TextStripped(msg)

\* backend.py (openclaw) start_ws_listener, the body of the loop
PrintsOpenclaw(msg) ==
    IF msg.channel = "capture_session" THEN FALSE
    ELSE IF msg.channel = "transcript"
    THEN IsFinal(msg) /\ TextStripped(msg)
    ELSE IF msg.channel \in {"audio_index", "scene_index", "visual_index"}
    THEN TextStripped(msg)
    ELSE msg.channel = "alert"

\* rtstream_minimal.py listen
PrintsMinimal(msg) ==
    IF msg.channel = "capture_session" THEN FALSE
    ELSE IF msg.channel = "transcript" /\ ~IsFinal(msg) THEN FALSE
    ELSE TRUE

\* try_without_setup.py listen_ws
PrintsTry(msg) ==
    IF msg.channel = "capture_session" THEN FALSE
    ELSE IF msg.channel = "transcript" THEN IsFinal(msg)
    ELSE TRUE

Prints(loop, msg) ==
    IF loop = "listen_quickstart" THEN PrintsQuickstart(msg)
    ELSE IF loop = "listen_openclaw" THEN PrintsOpenclaw(msg)
    ELSE IF loop = "listen_minimal" THEN PrintsMinimal(msg)
    ELSE PrintsTry(msg)

InitListen ==
    /\ received = 0
    /\ printed = <<>>

\* One round of `async for msg in ws.receive()`.
receive(msg) ==
    /\ program \in ListenPrograms
    /\ received < MaxMsgs
    /\ received' = received + 1
    /\ printed' = IF Prints(program, msg) THEN Append(printed, msg) ELSE printed
    /\ UNCHANGED <<program, nonListenVars>>

NextListen == \E msg \in Messages : receive(msg)

\* ========================================= Flask: POST /init-session
\* init_session of either Flask backend, alone: it shares only conn and
\* public_url with the webhook handler, and writes neither.
InitSessionPrograms == {"quickstart_init_session", "openclaw_init_session"}

\* One SDK call of init_session: the request it was made for, and whether
\* it returned or raised.  A call that returned yields the value `value`
\* (the session id, the token).
SdkCall(op, ok) ==
    [op |-> op, request |-> init_requests, ok |-> ok,
     value |-> IF ok THEN Len(sdk) + 1 ELSE 0]

NoInitResp == [status |-> 0, session_id |-> 0, token |-> 0, error |-> "none"]

InitInitSession ==
    /\ ipc = "idle"
    /\ init_requests = 0
    /\ sdk = <<>>
    /\ init_resp = NoInitResp

\* A request reaches init_session: webhook_url = f"{public_url}/webhook".
init_session ==
    /\ program \in InitSessionPrograms
    /\ ipc = "idle"
    /\ init_requests < MaxInitRequests
    /\ init_requests' = init_requests + 1
    /\ init_resp' = NoInitResp
    /\ ipc' = "create_capture_session"
    /\ UNCHANGED <<program, sdk, nonInitSessionVars>>

\* except Exception as e: return jsonify({"error": str(e)}), 500; the
\* message is that of the call that raised.
InitSessionError(op) ==
    [NoInitResp EXCEPT !.status = 500, !.error = op]

\* create_capture_session tried again after it raised.
create_capture_session_retried ==
    /\ program \in InitSessionPrograms
    /\ ipc = "create_capture_session"
    /\ \E ok \in BOOLEAN :
          /\ sdk' = Append(sdk, SdkCall("create_capture_session", ok))
          /\ ipc' = IF ok THEN "generate_client_token"
                    ELSE IF \E i \in 1..Len(sdk) :
                               sdk[i].request = init_requests
                         THEN "done" ELSE "create_capture_session"
          /\ init_resp' = IF ipc' = "done"
                          THEN InitSessionError("create_capture_session")
                          ELSE init_resp
    /\ UNCHANGED <<program, init_requests, nonInitSessionVars>>

\* session = conn.create_capture_session(...)
create_capture_session ==
    /\ program \in InitSessionPrograms
    /\ ipc = "create_capture_session"
    /\ \E ok \in BOOLEAN :
          /\ sdk' = Append(sdk, SdkCall("create_capture_session", ok))
          /\ IF ok
             THEN /\ ipc' = "generate_client_token"
                  /\ UNCHANGED init_resp
             ELSE /\ ipc' = "done"
                  /\ init_resp' = InitSessionError("create_capture_session")
    /\ UNCHANGED <<program, init_requests, nonInitSessionVars>>

\* token = conn.generate_client_token(); return jsonify({session_id,
\* token, webhook_url}).
generate_client_token ==
    /\ program \in InitSessionPrograms
    /\ ipc = "generate_client_token"
    /\ \E ok \in BOOLEAN :
          /\ sdk' = Append(sdk, SdkCall("generate_client_token", ok))
          /\ init_resp' =
                IF ok
                THEN [NoInitResp EXCEPT !.status = 200,
                                        !.session_id = sdk[Len(sdk)].value,
                                        !.token = Len(sdk) + 1]
                ELSE InitSessionError("generate_client_token")
    /\ ipc' = "done"
    /\ UNCHANGED <<program, init_requests, nonInitSessionVars>>

\* The response is sent; the request thread is free again.
init_session_respond ==
    /\ program \in InitSessionPrograms
    /\ ipc = "done"
    /\ ipc' = "idle"
    /\ UNCHANGED <<program, init_requests, sdk, init_resp,
                   nonInitSessionVars>>

NextInitSession ==
    \/ init_session
    \/ create_capture_session
    \/ generate_client_token
    \/ init_session_respond

\* ================================ async-recorder: the /api endpoints
\* The endpoints of routes.py other than the webhook, one request at a
\* time, next to registrations and to recordings the webhook stores.
ApiEndpoints ==
    {"get_server_config", "generate_token", "get_recordings",
     "get_recording", "create_capture_session"}

\* The endpoints declared with `user: User = Depends(get_current_user)`.
DependOnCurrentUser ==
    {"get_server_config", "generate_token", "get_recording",
     "create_capture_session"}

\* The x-access-token header: 0 is a request without it (Header(None)) or
\* with an empty value; the i-th registered user holds token i; token
\* MaxUsers + 1 is never issued.
AccessTokens == 0..(MaxUsers + 1)

\* limit: int = 20 of get_recordings.
DefaultLimit == 20

NoApiReq == [endpoint |-> "none", token |-> 0, recording_id |-> 0,
             limit |-> 0, user |-> 0]
\* A response: the status, the detail of an HTTPException, and the ids of
\* the recordings whose columns the body carries.
NoApiResp == [status |-> 0, detail |-> "none", recordings |-> {}]
ApiError(status, detail) ==
    [NoApiResp EXCEPT !.status = status, !.detail = detail]
ApiOk(recordings) ==
    [NoApiResp EXCEPT !.status = 200, !.recordings = recordings]

InitApi ==
    /\ apc = "idle"
    /\ areq = NoApiReq
    /\ aresp = NoApiResp
    /\ api_requests = 0
    /\ api_calls = <<>>

\* A request arrives.  FastAPI resolves the dependencies of the endpoint
\* before it calls the endpoint: get_current_user where it is declared.
api_request(endpoint, token, recording_id, limit) ==
    /\ program = "async_recorder_api"
    /\ apc = "idle"
    /\ api_requests < MaxApiRequests
    /\ api_requests' = api_requests + 1
    /\ areq' = [endpoint |-> endpoint, token |-> token,
                recording_id |-> recording_id, limit |-> limit, user |-> 0]
    /\ aresp' = NoApiResp
    /\ apc' = IF endpoint \in DependOnCurrentUser THEN "get_current_user"
              ELSE endpoint
    /\ UNCHANGED <<program, rows, users, api_calls, nonApiVars>>

\* get_current_user: 401 without the header, 401 when no user row has the
\* token, the user row otherwise.
get_current_user ==
    /\ program = "async_recorder_api"
    /\ apc = "get_current_user"
    /\ IF areq.token = 0
       THEN /\ aresp' = ApiError(401, "Missing Access Token")
            /\ apc' = "done"
            /\ UNCHANGED areq
       ELSE IF areq.token \notin 1..Len(users)
       THEN /\ aresp' = ApiError(401, "Invalid Access Token")
            /\ apc' = "done"
            /\ UNCHANGED areq
       ELSE /\ areq' = [areq EXCEPT !.user = areq.token]
            /\ apc' = areq.endpoint
            /\ UNCHANGED aresp
    /\ UNCHANGED <<program, rows, users, api_requests, api_calls,
                   nonApiVars>>

\* GET /api/config: the settings, no table and no SDK involved.
get_server_config ==
    /\ program = "async_recorder_api"
    /\ apc = "get_server_config"
    /\ aresp' = ApiOk({})
    /\ apc' = "done"
    /\ UNCHANGED <<program, rows, users, areq, api_requests, api_calls,
                   nonApiVars>>

\* One videodb_service call made for the current request.
ApiCall(op) == [op |-> op, request |-> api_requests, user |-> areq.user]

\* POST /api/token: create_session_token_with_metadata with the user's
\* api key; the service returns None when the SDK fails, which is a 500.
generate_token ==
    /\ program = "async_recorder_api"
    /\ apc = "generate_token"
    /\ api_calls' = Append(api_calls,
                           ApiCall("create_session_token_with_metadata"))
    /\ \E token_data \in BOOLEAN :
          aresp' = IF token_data THEN ApiOk({})
                   ELSE ApiError(500, "Failed to generate session token")
    /\ apc' = "done"
    /\ UNCHANGED <<program, rows, users, areq, api_requests, nonApiVars>>

\* order_by(Recording.created_at.desc()).limit(limit).all(): the ids of the
\* `limit` most recent rows.
MostRecent(limit) ==
    {i \in 1..Len(rows) : i > Len(rows) - limit}

\* GET /api/recordings: declared with db only; the rows are returned to
\* whoever asks.
get_recordings ==
    /\ program = "async_recorder_api"
    /\ apc = "get_recordings"
    /\ aresp' = ApiOk(MostRecent(areq.limit))
    /\ apc' = "done"
    /\ UNCHANGED <<program, rows, users, areq, api_requests, api_calls,
                   nonApiVars>>

\* GET /api/recordings/{recording_id}: the row with that id, or 404.
get_recording ==
    /\ program = "async_recorder_api"
    /\ apc = "get_recording"
    /\ aresp' = IF areq.recording_id \in 1..Len(rows)
                THEN ApiOk({areq.recording_id})
                ELSE ApiError(404, "Recording not found")
    /\ apc' = "done"
    /\ UNCHANGED <<program, rows, users, areq, api_requests, api_calls,
                   nonApiVars>>

\* POST /api/capture-session (routes.create_capture_session): the service
\* call with the user's api key; None from the service is a 500.
post_capture_session ==
    /\ program = "async_recorder_api"
    /\ apc = "create_capture_session"
    /\ api_calls' = Append(api_calls, ApiCall("create_capture_session"))
    /\ \E session_data \in BOOLEAN :
          aresp' = IF session_data THEN ApiOk({})
                   ELSE ApiError(500, "Failed to create capture session")
    /\ apc' = "done"
    /\ UNCHANGED <<program, rows, users, areq, api_requests, nonApiVars>>

\* The response is sent.
api_respond ==
    /\ program = "async_recorder_api"
    /\ apc = "done"
    /\ apc' = "idle"
    /\ UNCHANGED <<program, rows, users, areq, aresp, api_requests,
                   api_calls, nonApiVars>>

\* The webhook handler stores a recording while the endpoints are served:
\* the row create_recording commits, for a new video of a new session.
recording_stored ==
    /\ program = "async_recorder_api"
    /\ Len(rows) < MaxVideo
    /\ rows' = Append(rows, Recording(Len(rows) + 1, Len(rows) + 1, MaxUrl,
                                      MaxUrl, Len(rows) + 1))
    /\ UNCHANGED <<program, users, apiVars, nonApiVars>>

NextApi ==
    \/ \E endpoint \in ApiEndpoints, token \in AccessTokens :
          \E recording_id \in
                IF endpoint = "get_recording" THEN 1..MaxVideo ELSE {0},
             limit \in
                IF endpoint = "get_recordings" THEN {1, DefaultLimit}
                ELSE {0} :
             api_request(endpoint, token, recording_id, limit)
    \/ get_current_user
    \/ get_server_config
    \/ generate_token
    \/ get_recordings
    \/ get_recording
    \/ post_capture_session
    \/ api_respond
    \/ register
    \/ recording_stored

\* ============================== async-recorder: TunnelManager (tunnel.py)
\* main.create_app: startup_event calls TunnelManager.start() once, the
\* server then answers GET /api/tunnel/status, shutdown_event calls
\* TunnelManager.stop().

\* settings.WEBHOOK_URL: NoUrl is None, EmptyUrl the empty string an
\* environment that sets the variable to nothing gives (both are false in
\* `if settings.WEBHOOK_URL`), EnvUrl the value taken from
\* the environment, TunnelUrl is f"{cls._public_url}/api/webhook".
NoUrl == "none"
EmptyUrl == "empty"
EnvUrl == "env"
TunnelUrl == "tunnel"

\* _tunnel: None, or the object try_cloudflare returned.  process tells
\* whether the cloudflared process it started still runs; stopper is the
\* method the object offers to end it.
NoTunnel == [object |-> FALSE, process |-> "none", stopper |-> "none"]
\* _public_url = cls._tunnel.tunnel: None, an empty string, or the url.
PublicUrls == {"none", "empty", "url"}

InitTunnel ==
    /\ tpc = "startup"
    /\ WEBHOOK_URL \in IF program = "async_recorder_tunnel"
                       THEN {NoUrl, EmptyUrl, EnvUrl} ELSE {NoUrl}
    /\ tunnel = NoTunnel
    /\ public_url = "none"
    /\ start_result = "not_called"
    /\ runtime_json = <<>>
    /\ tunnel_status = <<>>

\* TunnelManager.is_running()
is_running == tunnel.object /\ public_url # "none"

\* start() without the early return: the tunnel is always tried.
start_always_tunnels ==
    /\ program = "async_recorder_tunnel"
    /\ tpc = "startup"
    /\ tpc' = "try_cloudflare"
    /\ UNCHANGED <<program, WEBHOOK_URL, tunnel, public_url, start_result,
                   runtime_json, tunnel_status, nonTunnelVars>>

\* TunnelManager.start(), first statement: with settings.WEBHOOK_URL set,
\* the early return after write_runtime_config.
start ==
    /\ program = "async_recorder_tunnel"
    /\ tpc = "startup"
    /\ IF WEBHOOK_URL \notin {NoUrl, EmptyUrl}
       THEN /\ start_result' = WEBHOOK_URL
            /\ tpc' = "write_runtime_config"
       ELSE /\ tpc' = "try_cloudflare"
            /\ UNCHANGED start_result
    /\ UNCHANGED <<program, WEBHOOK_URL, tunnel, public_url, runtime_json,
                   tunnel_status, nonTunnelVars>>

\* The try block of start(): import pycloudflared, try_cloudflare(port),
\* _public_url = _tunnel.tunnel.  The import can fail and the call can
\* raise (nothing assigned); the object returned may carry no url.
try_cloudflare ==
    /\ program = "async_recorder_tunnel"
    /\ tpc = "try_cloudflare"
    /\ \/ /\ start_result' = NoUrl
          /\ UNCHANGED <<tunnel, public_url, WEBHOOK_URL>>
       \/ \E url \in PublicUrls, stopper \in {"terminate", "kill", "none"} :
             /\ tunnel' = [object |-> TRUE, process |-> "running",
                           stopper |-> stopper]
             /\ public_url' = url
             /\ IF url = "url"
                THEN /\ WEBHOOK_URL' = TunnelUrl
                     /\ start_result' = TunnelUrl
                ELSE /\ start_result' = NoUrl
                     /\ UNCHANGED WEBHOOK_URL
    /\ tpc' = "write_runtime_config"
    /\ UNCHANGED <<program, runtime_json, tunnel_status, nonTunnelVars>>

\* A start() that writes the file on entry and again before it returns.
write_runtime_config_twice ==
    /\ program = "async_recorder_tunnel"
    /\ tpc = "write_runtime_config"
    /\ \/ runtime_json' = Append(Append(runtime_json, NoUrl), WEBHOOK_URL)
       \/ UNCHANGED runtime_json
    /\ tpc' = "serving"
    /\ UNCHANGED <<program, WEBHOOK_URL, tunnel, public_url, start_result,
                   tunnel_status, nonTunnelVars>>

\* write_runtime_config(), called on every path of start() before it
\* returns: runtime.json gets settings.WEBHOOK_URL, unless opening or
\* writing the file raises, which is logged and dropped.
write_runtime_config ==
    /\ program = "async_recorder_tunnel"
    /\ tpc = "write_runtime_config"
    /\ \/ runtime_json' = Append(runtime_json, WEBHOOK_URL)
       \/ UNCHANGED runtime_json
    /\ tpc' = "serving"
    /\ UNCHANGED <<program, WEBHOOK_URL, tunnel, public_url, start_result,
                   tunnel_status, nonTunnelVars>>

\* GET /api/tunnel/status (main.get_tunnel_status)
get_tunnel_status ==
    /\ program = "async_recorder_tunnel"
    /\ tpc = "serving"
    /\ Len(tunnel_status) < MaxStatusRequests
    /\ tunnel_status' = Append(tunnel_status,
                               [active |-> is_running,
                                webhook_url |-> WEBHOOK_URL])
    /\ UNCHANGED <<program, tpc, WEBHOOK_URL, tunnel, public_url,
                   start_result, runtime_json, nonTunnelVars>>

\* TunnelManager.stop(): terminate() or kill() when the object has one,
\* an exception of either dropped; then _tunnel = None, _public_url = None.
stop ==
    /\ program = "async_recorder_tunnel"
    /\ tpc = "serving"
    /\ IF tunnel.object
       THEN \E ended \in BOOLEAN :
               tunnel' = [NoTunnel EXCEPT
                            !.process = IF ended /\ tunnel.stopper # "none"
                                        THEN "ended" ELSE tunnel.process]
       ELSE UNCHANGED tunnel
    /\ public_url' = "none"
    /\ tpc' = "stopped"
    /\ UNCHANGED <<program, WEBHOOK_URL, start_result, runtime_json,
                   tunnel_status, nonTunnelVars>>

NextTunnel ==
    \/ start
    \/ try_cloudflare
    \/ write_runtime_config
    \/ get_tunnel_status
    \/ stop

\* ============== capture clients without a cleanup block (the variants)
\* simple_client      src/quickstart/python-quickstart/client.py run_capture
\* monitoring_client  examples/openclaw-monitoring/start_monitoring.py
\*                    run_capture
VariantPrograms == {"simple_client", "monitoring_client"}

\* The defaults the variant reads from list_channels(), in the order of
\* its `X.store = True` assignments.
VariantDefaults(p) ==
    IF p = "simple_client" THEN <<"mic", "display", "system_audio">>
    ELSE <<"display", "system_audio">>

\* An awaited call of the CaptureClient: it is pending until the client
\* process answers, which it may never do.
VariantCall(op, channels) ==
    [op |-> op, channels |-> channels, outcome |-> "pending"]

InitVariant ==
    /\ vpc = "created"
    /\ vremote = <<>>
    /\ store = {}
    /\ caffeinate = "none"

\* client = CaptureClient(client_token=token); start_monitoring also
\* starts caffeinate before the try-block.
variant_begin ==
    /\ program \in VariantPrograms
    /\ vpc = "created"
    /\ caffeinate' = IF program = "monitoring_client" THEN "running"
                     ELSE caffeinate
    /\ vpc' = IF program = "simple_client"
              THEN "request_permission_microphone"
              ELSE "request_permission_screen_capture"
    /\ UNCHANGED <<program, vremote, store, nonVariantVars>>

\* `await client.<op>(...)` is reached: the call is issued.
VariantAwait(at, op, channels) ==
    /\ program \in VariantPrograms
    /\ vpc = at
    /\ vremote' = Append(vremote, VariantCall(op, channels))
    /\ vpc' = "awaiting"
    /\ UNCHANGED <<program, store, caffeinate, nonVariantVars>>

\* The last call issued, and the statement that follows each call.
LastCall == vremote[Len(vremote)]
AfterCall(at) ==
    IF at = "request_permission_microphone"
    THEN "request_permission_screen_capture"
    ELSE IF at = "request_permission_screen_capture" THEN "list_channels"
    ELSE IF at = "list_channels" THEN "store"
    ELSE IF at = "start_session" THEN "recording"
    ELSE IF at = "stop_session" THEN "shutdown"
    ELSE "returned"

\* await client.request_permission("microphone") (simple_client only)
variant_permission_microphone ==
    VariantAwait("request_permission_microphone",
                 "request_permission_microphone", {"mic"})

\* await client.request_permission("screen_capture")
variant_permission_screen_capture ==
    VariantAwait("request_permission_screen_capture",
                 "request_permission_screen_capture", {"display"})

\* channels = await client.list_channels()
variant_list_channels == VariantAwait("list_channels", "list_channels", {})

\* The pending call is answered: it returns, or it raises into
\* `except Exception`.  list_channels returns the defaults that exist.
variant_answer ==
    /\ program \in VariantPrograms
    /\ vpc = "awaiting"
    /\ \/ /\ \E found \in IF LastCall.op = "list_channels"
                          THEN SUBSET ChannelCategories
                          ELSE {LastCall.channels} :
                vremote' = [vremote EXCEPT ![Len(vremote)] =
                              [@ EXCEPT !.outcome = "ok",
                                        !.channels = found]]
          /\ vpc' = AfterCall(LastCall.op)
       \/ /\ vremote' = [vremote EXCEPT ![Len(vremote)].outcome = "raised"]
          /\ vpc' = "except"
    /\ UNCHANGED <<program, store, caffeinate, nonVariantVars>>

\* The defaults list_channels() reported.
Found ==
    LET listed == {i \in 1..Len(vremote) : vremote[i].op = "list_channels"}
    IN  IF listed = {} THEN {}
        ELSE vremote[CHOOSE i \in listed : TRUE].channels

\* The defaults whose store assignment comes before the first absent one.
RECURSIVE StoredBeforeMissing(_, _)
StoredBeforeMissing(defaults, found) ==
    IF defaults = <<>> \/ Head(defaults) \notin found THEN {}
    ELSE {Head(defaults)} \cup StoredBeforeMissing(Tail(defaults), found)

\* mic.store = True; display.store = True; system_audio.store = True, then
\* selected_channels = [c for c in [...] if c].  A default that does not
\* exist is None, and the assignment to its attribute raises
\* AttributeError, which `except Exception` takes.  With every default
\* present the list is not empty, so `if not selected_channels` is false.
variant_store ==
    /\ program \in VariantPrograms
    /\ vpc = "store"
    /\ store' = StoredBeforeMissing(VariantDefaults(program), Found)
    /\ vpc' = IF \A i \in 1..Len(VariantDefaults(program)) :
                    VariantDefaults(program)[i] \in Found
              THEN "start_session" ELSE "except"
    /\ UNCHANGED <<program, vremote, caffeinate, nonVariantVars>>

\* await client.start_session(capture_session_id=..., channels=
\* selected_channels, primary_video_channel_id=...)
variant_start_session ==
    VariantAwait("start_session", "start_session",
                 {VariantDefaults(program)[i] :
                     i \in 1..Len(VariantDefaults(program))} \cap Found)

\* simple_client: await loop.run_in_executor(None, input) returns when
\* Enter is pressed.  (monitoring_client sleeps in `while True` instead.)
variant_enter_pressed ==
    /\ program = "simple_client"
    /\ vpc = "recording"
    /\ vpc' = "stop_session"
    /\ UNCHANGED <<program, vremote, store, caffeinate, nonVariantVars>>

\* await client.stop_session()
variant_stop_session == VariantAwait("stop_session", "stop_session", {})

\* await client.shutdown()
variant_shutdown == VariantAwait("shutdown", "shutdown", {})

\* except Exception as e: print(f"Capture error: {e}"); run_capture
\* returns, monitoring_client through its finally.
variant_except ==
    /\ program \in VariantPrograms
    /\ vpc = "except"
    /\ vpc' = "returned"
    /\ caffeinate' = IF program = "monitoring_client" THEN "terminated"
                     ELSE caffeinate
    /\ UNCHANGED <<program, vremote, store, nonVariantVars>>

\* Ctrl+C: asyncio.run cancels the task; CancelledError is no Exception,
\* so it passes `except Exception` (monitoring_client: through finally)
\* and main prints "Force quit".
variant_interrupt ==
    /\ program \in VariantPrograms
    /\ vpc \notin {"created", "returned", "force_quit"}
    /\ vpc' = "force_quit"
    /\ caffeinate' = IF program = "monitoring_client" THEN "terminated"
                     ELSE caffeinate
    /\ UNCHANGED <<program, vremote, store, nonVariantVars>>

\* The steps the client takes by itself, and those of its environment
\* (the capture process answering, the user).
NextVariantOwn ==
    \/ variant_begin
    \/ variant_permission_microphone
    \/ variant_permission_screen_capture
    \/ variant_list_channels
    \/ variant_store
    \/ variant_start_session
    \/ variant_stop_session
    \/ variant_shutdown
    \/ variant_except

NextVariant ==
    \/ NextVariantOwn
    \/ variant_answer
    \/ variant_enter_pressed
    \/ variant_interrupt

\* ====================================================== specifications
Programs ==
    FlaskPrograms \cup RecorderPrograms \cup {"quickstart_client"}
    \cup ListenPrograms \cup InitSessionPrograms \cup {"async_recorder_api"}
    \cup {"async_recorder_tunnel"} \cup VariantPrograms

Init ==
    /\ program \in Programs
    /\ InitFlask
    /\ InitRecorder
    /\ InitClient
    /\ InitListen
    /\ InitInitSession
    /\ InitApi
    /\ InitTunnel
    /\ InitVariant

Next ==
    \/ NextFlask \/ NextRecorder \/ NextClient \/ NextListen
    \/ NextInitSession \/ NextApi \/ NextTunnel \/ NextVariant

Spec == Init /\ [][Next]_vars

\* One program at a time.
InitFlaskPrograms == Init /\ program \in FlaskPrograms
SpecFlask == InitFlaskPrograms /\ [][NextFlask]_vars

InitRecorderProgram == Init /\ program = "async_recorder"
SpecRecorder == InitRecorderProgram /\ [][NextRecorder]_vars

InitRecorderTwoUsers == Init /\ program = "async_recorder_two_users"
SpecRecorderTwoUsers == InitRecorderTwoUsers /\ [][NextRecorder]_vars

InitClientProgram == Init /\ program = "quickstart_client"
SpecClient == InitClientProgram /\ [][NextClient]_vars

InitListenPrograms == Init /\ program \in ListenPrograms
SpecListen == InitListenPrograms /\ [][NextListen]_vars

InitInitSessionPrograms == Init /\ program \in InitSessionPrograms
SpecInitSession == InitInitSessionPrograms /\ [][NextInitSession]_vars

InitApiProgram == Init /\ program = "async_recorder_api"
SpecApi == InitApiProgram /\ [][NextApi]_vars

InitTunnelProgram == Init /\ program = "async_recorder_tunnel"
SpecTunnel == InitTunnelProgram /\ [][NextTunnel]_vars

\* The three capture clients.  Every step a client takes by itself is
\* taken eventually (the event loop runs it); nothing makes the capture
\* process answer a call or the user act.
InitCaptureClients ==
    Init /\ program \in {"quickstart_client"} \cup VariantPrograms
NextCaptureClients == NextClient \/ NextVariant
SpecCaptureClients == InitCaptureClients /\ [][NextCaptureClients]_vars
SpecCaptureClientsFair ==
    /\ SpecCaptureClients
    /\ WF_vars(NextClient)
    /\ WF_vars(NextVariantOwn)

\* The three webhook backends.
InitBackends == Init /\ program \in FlaskPrograms \cup {"async_recorder"}
NextBackends == NextFlask \/ NextRecorder
SpecBackends == InitBackends /\ [][NextBackends]_vars

\* ====================================================================
\* Properties
\* ====================================================================

\* ---------------------------------------------------------------- C1
\* C1: in each of the three backends, a delivery whose JSON object has no
\* "event" key is answered with the success acknowledgement (received =
\* true) by the step that receives it, and that step starts no listener,
\* makes no platform call, creates no event or alert, and touches no row,
\* user or background task.
C1_NoEventAcknowledged ==
    [][ /\ (hpc = "idle" /\ hpc' # "idle"
               /\ req'.kind = "object" /\ req'.event = "absent")
           => /\ resp' = Ok
              /\ hpc' = "done"
              /\ UNCHANGED <<listeners, calls, platformEvents, nextWs>>
        /\ \A h \in Handlers :
              (rh[h].pc = "idle" /\ rh'[h].pc # "idle"
                  /\ rh'[h].req.kind = "object"
                  /\ rh'[h].req.event = "absent")
              => /\ rh'[h].resp = Ok
                 /\ rh'[h].pc = "done"
                 /\ UNCHANGED <<rows, users, tasks>> ]_vars

\* A Flask backend that already runs listeners, and the recorder with a
\* stored row, each having just acknowledged a payload without "event".
C1_Witness ==
    \/ /\ program \in FlaskPrograms
       /\ hpc = "done" /\ req.kind = "object" /\ req.event = "absent"
       /\ resp = Ok /\ listeners # <<>> /\ calls # <<>>
    \/ /\ program = "async_recorder"
       /\ \E h \in Handlers :
             /\ rh[h].pc = "done" /\ rh[h].req.kind = "object"
             /\ rh[h].req.event = "absent" /\ rh[h].resp = Ok
       /\ rows # <<>>

\* ---------------------------------------------------------------- C2
\* C2 as stated, read for deliveries the recorder answered with success
\* and processed one at a time: an exported delivery with a non-empty
\* video_id that no row held at receipt has added exactly one row, and one
\* whose video_id a row already held has added none.
C2_UnseenVideoCreatesOneRow ==
    \A h \in Handlers :
        (/\ rh[h].pc = "done"
         /\ rh[h].req.kind = "object"
         /\ rh[h].req.event = "capture_session.exported"
         /\ rh[h].req.video # 0
         /\ rh[h].resp = Ok)
        => Len(rows) = rh[h].at_receipt.rows
                       + (IF rh[h].at_receipt.video THEN 0 ELSE 1)

\* C2, amended: an exported delivery answered with success, with a
\* non-empty video_id, has added exactly one row when at receipt no row
\* held its video_id and no row held its capture_session_id; in every
\* other case (a redelivery among them) the number of rows is unchanged.
C2_UnseenVideoAndSessionCreatesOneRow ==
    \A h \in Handlers :
        (/\ rh[h].pc = "done"
         /\ rh[h].req.kind = "object"
         /\ rh[h].req.event = "capture_session.exported"
         /\ rh[h].req.video # 0
         /\ rh[h].resp = Ok)
        => Len(rows) = rh[h].at_receipt.rows
                       + (IF rh[h].at_receipt.video
                             \/ rh[h].at_receipt.session THEN 0 ELSE 1)

\* A second row has just been created, and a redelivery of a stored
\* video_id under a session no row holds has just been acknowledged.
C2_Witness ==
    \E h \in Handlers :
        /\ rh[h].pc = "done" /\ rh[h].resp = Ok
        /\ rh[h].req.kind = "object"
        /\ rh[h].req.event = "capture_session.exported"
        /\ rh[h].req.video # 0
        /\ \/ /\ rh[h].branch = "created"
              /\ rh[h].at_receipt.rows = 1
              /\ Len(rows) = 2
           \/ /\ rh[h].branch = "duplicate"
              /\ ~rh[h].at_receipt.session
              /\ Len(rows) = rh[h].at_receipt.rows

\* ---------------------------------------------------------------- C3
\* C3: an exported delivery whose capture_session_id is the session_id of
\* a stored row is routed to the update of that row, and the committed
\* update rewrites that row in place: same id and session_id, the
\* delivery's video_id, stream_url and player_url, the number of rows and
\* every other row unchanged.
C3_KnownSessionUpdatedInPlace ==
    [][ \A h \in Handlers :
          /\ (rh[h].pc = "lookup_session" /\ rh'[h].pc # "lookup_session"
                 /\ \E i \in 1..Len(rows) :
                       rows[i].session_id = rh[h].req.sid)
             => /\ rh'[h].pc = "update"
                /\ rh'[h].recording \in {rows[i] : i \in 1..Len(rows)}
                /\ rh'[h].recording.session_id = rh[h].req.sid
                /\ rows' = rows
          /\ (rh[h].pc = "update" /\ rh'[h].pc = "schedule")
             => LET id == rh[h].recording.id IN
                /\ Len(rows') = Len(rows)
                /\ rows'[id].id = id
                /\ rows'[id].session_id = rh[h].req.sid
                /\ rows'[id].video_id = rh[h].req.video
                /\ rows'[id].stream_url = rh[h].req.stream
                /\ rows'[id].player_url = rh[h].req.player
                /\ \A i \in 1..Len(rows) : i # id => rows'[i] = rows[i]
      ]_vars

\* A pending row of a known session has just been rewritten with another
\* video_id and other urls, a second row being stored next to it.
C3_Witness ==
    \E h \in Handlers :
        /\ rh[h].pc = "schedule" /\ rh[h].branch = "updated"
        /\ Len(rows) = 2
        /\ rh[h].recording.insights_status = "pending"
        /\ rh[h].recording.video_id # rh[h].req.video
        /\ rh[h].recording.player_url # rh[h].req.player
        /\ rows[rh[h].recording.id].video_id = rh[h].req.video
        /\ rows[rh[h].recording.id].session_id = rh[h].req.sid

\* ---------------------------------------------------------------- C4
\* C4: every start_transcript, index_audio, index_visuals and create_alert
\* call of a Flask backend was issued after the listener started for its
\* stream category in the same delivery had connected and handed its
\* connection id over, and the ws_connection_id of the call is non-empty
\* and is the connection id of that listener's socket.
C4_CallsAfterHandoff ==
    \A i \in 1..Len(calls) :
        \E j \in 1..Len(listeners) :
            /\ listeners[j].delivery = calls[i].delivery
            /\ listeners[j].cat = calls[i].cat
            /\ listeners[j].state # "connecting"
            /\ listeners[j].handoff = "taken"
            /\ calls[i].ws # 0
            /\ calls[i].ws = listeners[j].ws

\* The second delivery has issued calls for two categories, on two
\* different sockets, after the first delivery's calls.
C4_Witness ==
    \E i, k \in 1..Len(calls) :
        /\ calls[i].delivery = 2 /\ calls[k].delivery = 2
        /\ calls[i].cat # calls[k].cat
        /\ calls[i].ws # calls[k].ws
        /\ \E m \in 1..Len(calls) : calls[m].delivery = 1

\* ---------------------------------------------------------------- C5
\* C5: when the 10-second wait for a listener's connection id ran out, no
\* indexing call was ever issued for that stream category in that
\* delivery, and the handler of that delivery ended in its failure branch.
C5_TimeoutIssuesNoCall ==
    \A j \in 1..Len(listeners) :
        listeners[j].handoff = "timeout"
        => /\ \A i \in 1..Len(calls) :
                 ~(/\ calls[i].delivery = listeners[j].delivery
                   /\ calls[i].cat = listeners[j].cat)
           /\ (listeners[j].delivery = deliveries /\ hpc # "idle")
              => (hpc = "done" /\ aborted)

\* The wait ran out for the second category of a delivery while the first
\* one had been indexed, and the listener connected after the timeout.
C5_Witness ==
    \E j \in 1..Len(listeners) :
        /\ listeners[j].handoff = "timeout"
        /\ listeners[j].state = "receiving"
        /\ listeners[j].queue # <<>>
        /\ \E i \in 1..Len(calls) :
              /\ calls[i].delivery = listeners[j].delivery
              /\ calls[i].cat # listeners[j].cat

\* ---------------------------------------------------------------- C6
\* C6: in each of the four receive loops, every printed message of the
\* transcript channel has is_final true.
C6_OnlyFinalTranscriptsPrinted ==
    \A i \in 1..Len(printed) :
        printed[i].channel = "transcript" => printed[i].is_final = "true"

\* ---------------------------------------------------------------- C7
\* C7: when a capture_session.active delivery has been handled without
\* failure, each category has one listener of this delivery if the variant
\* handles it and the session has a stream in it, and none otherwise; the
\* calls of this delivery are one start_transcript and one index_audio per
\* such audio category and one index_visuals for such a screen category,
\* and no others of these three.
CallsOf(op, cat) ==
    Cardinality({i \in 1..Len(calls) :
                    /\ calls[i].delivery = deliveries
                    /\ calls[i].op = op
                    /\ calls[i].cat = cat})

ListenersOf(cat) ==
    Cardinality({j \in 1..Len(listeners) :
                    /\ listeners[j].delivery = deliveries
                    /\ listeners[j].cat = cat})

C7_ListenersAndCallsPerCategory ==
    (hpc = "done" /\ req.event = "capture_session.active" /\ ~aborted)
    => \A c \in {"system_audio", "mic", "screen"} :
          LET handled == \/ c \in {"system_audio", "screen"}
                         \/ c = "mic" /\ program = "quickstart_backend"
              n == IF handled /\ streams[c] > 0 THEN 1 ELSE 0
          IN  /\ ListenersOf(c) = n
              /\ CallsOf("start_transcript", c)
                     = (IF c \in {"system_audio", "mic"} THEN n ELSE 0)
              /\ CallsOf("index_audio", c)
                     = (IF c \in {"system_audio", "mic"} THEN n ELSE 0)
              /\ CallsOf("index_visuals", c) = (IF c = "screen" THEN n ELSE 0)

\* Handled without failure: one screen stream and no audio stream, on top
\* of an earlier delivery; and the quickstart backend with every category
\* holding more than one stream.
C7_Witness ==
    /\ hpc = "done" /\ req.event = "capture_session.active" /\ ~aborted
    /\ deliveries = 2
    /\ \/ /\ streams = [NoStreams EXCEPT !["screen"] = 1]
          /\ ListenersOf("screen") = 1
          /\ CallsOf("index_visuals", "screen") = 1
          /\ Len(listeners) > 1
       \/ /\ program = "quickstart_backend"
          /\ \A c \in DOMAIN streams : streams[c] = MaxStreams
          /\ ListenersOf("mic") = 1

\* ---------------------------------------------------------------- C8
\* C8: a stop_capture call that timed out is the last call the client
\* makes on the capture process: the client sleeps the grace period of the
\* timeout branch, once, and goes on to the end of the cleanup without
\* shutdown.
C8_TimeoutSleepsAndSkipsShutdown ==
    \A i \in 1..Len(remote) :
        (remote[i].op = "stop_capture" /\ remote[i].outcome = "timeout")
        => /\ i = Len(remote)
           /\ binary_already_exited
           /\ IF cpc = "sleep"
              THEN slept = <<>>
              ELSE /\ slept = <<GraceTimedOut>>
                   /\ cpc \in {"cleanup_done", "returned"}

\* run_capture returned after a capture that had started, the stop having
\* timed out.
C8_Witness ==
    /\ cpc = "returned"
    /\ slept = <<GraceTimedOut>>
    /\ remote[Len(remote)].op = "stop_capture"
    /\ remote[Len(remote)].outcome = "timeout"
    /\ \E i \in 1..Len(remote) :
          remote[i].op = "start_capture_session" /\ remote[i].outcome = "ok"

\* ---------------------------------------------------------------- C9
\* C9: whenever run_capture has returned, whatever the body did and
\* however stop_capture and shutdown ended, cleanup_done is set.
C9_CleanupDoneBeforeReturn ==
    cpc = "returned" => cleanup_done

\* run_capture returned with no channel found and shutdown having raised.
C9_Witness ==
    /\ cpc = "returned" /\ cleanup_done
    /\ \E i \in 1..Len(remote) :
          /\ remote[i].op = "list_channels"
          /\ remote[i].outcome = "ok" /\ remote[i].channels = {}
    /\ remote[Len(remote)].op = "shutdown"
    /\ remote[Len(remote)].outcome = "raised"

\* --------------------------------------------------------------- C10
\* C10: in each of the three backends, a request whose body is empty, is
\* not valid JSON, or is JSON that is not an object, is answered with the
\* success acknowledgement.
C10_MalformedBodyAcknowledged ==
    /\ (hpc = "done" /\ req.kind \in MalformedKinds) => resp = Ok
    /\ \A h \in Handlers :
          (rh[h].pc = "done" /\ rh[h].req.kind \in MalformedKinds)
          => rh[h].resp = Ok

\* --------------------------------------------------------------- C11
\* C11 as stated: the check-then-insert is not atomic, that is, whenever a
\* handler has passed the lookup by session_id (and the duplicate check by
\* video_id) and has not committed yet, the handler of another delivery
\* can start and pass the same checks.
C11_CheckThenInsertInterleaves ==
    \A h \in Handlers :
        (/\ rh[h].pc \in {"lookup_video", "insert"}
         /\ RecorderDeliveries < ExportsBound)
        => ENABLED (\E g \in Handlers \ {h}, body \in RecorderBodies :
                       handle_webhook(g, body))

\* C11, amended: handlers of the one server process run one at a time from
\* the read of the body to the return, so the check and the insert of a
\* delivery are never separated by another delivery: at most one handler
\* is past its checks at any time, and no two rows hold the same
\* session_id, however often an exported event is redelivered.
C11_OneRowPerSession ==
    /\ Cardinality({h \in Handlers : rh[h].pc # "idle"}) <= 1
    /\ \A i, j \in 1..Len(rows) :
          rows[i].session_id = rows[j].session_id => i = j

\* The same exported event has been delivered three times; the first
\* delivery created the row, and the third has just been answered.
C11_Witness ==
    \E h \in Handlers :
        /\ rh[h].pc = "done" /\ rh[h].resp = Ok
        /\ rh[h].req.event = "capture_session.exported"
        /\ rh[h].req.video # 0 /\ rh[h].req.sid # 0
        /\ RecorderDeliveries = 3
        /\ Len(rows) = 1
        /\ rows[1].session_id = rh[h].req.sid
        /\ rows[1].video_id = rh[h].req.video
        /\ rh[h].at_receipt.video /\ rh[h].at_receipt.session

\* --------------------------------------------------------------- C12
\* C12: in a Flask backend, the step in which the setup of a delivery
\* raises starts no listener and issues no call but the one that raised,
\* and every step after it until the response starts no listener, issues
\* no call and creates no event; neither stops a listener nor withdraws a
\* call already made: the listeners stay in the list under their category
\* and delivery, and the calls issued stay issued.
C12_AbortStopsSetupKeepsStarted ==
    [][ /\ (~aborted /\ aborted')
           => /\ Len(listeners') = Len(listeners)
              /\ \A j \in 1..Len(listeners) :
                    listeners'[j].state = listeners[j].state
              /\ SubSeq(calls', 1, Len(calls)) = calls
              /\ Len(calls') <= Len(calls) + 1
              /\ (Len(calls') = Len(calls) + 1 => ~calls'[Len(calls')].ok)
              /\ platformEvents' = platformEvents
              /\ hpc' = "done"
        /\ aborted
           => /\ Len(listeners') = Len(listeners)
              /\ \A j \in 1..Len(listeners) :
                    /\ listeners'[j].cat = listeners[j].cat
                    /\ listeners'[j].delivery = listeners[j].delivery
                    /\ (listeners[j].state = "receiving"
                           /\ listeners[j].handoff = "taken")
                       => listeners'[j].ws = listeners[j].ws
              /\ calls' = calls
              /\ platformEvents' = platformEvents
              /\ hpc' \in {"done", "idle"}
      ]_vars

\* The setup raised in the second category of a delivery, and the listener
\* and pipeline of the first category are in place and running.
C12_Witness ==
    /\ hpc = "done" /\ aborted
    /\ \E j \in 1..Len(listeners), i \in 1..Len(calls) :
          /\ listeners[j].delivery = deliveries
          /\ listeners[j].state = "receiving"
          /\ calls[i].delivery = deliveries
          /\ calls[i].cat = listeners[j].cat
          /\ calls[i].ok
    /\ \E k \in 1..Len(calls) :
          /\ calls[k].delivery = deliveries
          /\ ~calls[k].ok
          /\ calls[k].cat = "screen"
    /\ streams["screen"] > 0

\* --------------------------------------------------------------- C13
\* C13 as stated: when a delivery has been answered after the wait for one
\* category's listener timed out, every other non-empty category the
\* variant handles has its listener of that delivery.
C13_OtherCategoriesStillSetUp ==
    (hpc = "done" /\ req.event = "capture_session.active")
    => \A j \in 1..Len(listeners) :
          (listeners[j].delivery = deliveries
              /\ listeners[j].handoff = "timeout")
          => \A c \in {"system_audio", "mic", "screen"} :
                (/\ c # listeners[j].cat
                 /\ streams[c] > 0
                 /\ c \in {"system_audio", "screen"}
                    \/ program = "quickstart_backend")
                => ListenersOf(c) = 1

\* C13, amended: the timeout ends the setup of the whole delivery.  The
\* listener whose wait timed out is the last one started in its delivery,
\* every call of that delivery belongs to a category set up before it, and
\* those categories had their connection id taken.
C13_TimeoutEndsSetupOfDelivery ==
    \A j \in 1..Len(listeners) :
        listeners[j].handoff = "timeout"
        => /\ \A k \in 1..Len(listeners) :
                 listeners[k].delivery = listeners[j].delivery
                 => /\ k <= j
                    /\ k < j => listeners[k].handoff = "taken"
           /\ \A i \in 1..Len(calls) :
                 calls[i].delivery = listeners[j].delivery
                 => \E k \in 1..(j - 1) :
                       /\ listeners[k].delivery = calls[i].delivery
                       /\ listeners[k].cat = calls[i].cat

\* The wait for the system-audio listener timed out, the session has a
\* screen stream, and the delivery was answered with no screen listener;
\* or the wait for the screen listener timed out after the audio category
\* had been indexed.
C13_Witness ==
    /\ hpc = "done" /\ aborted
    /\ \E j \in 1..Len(listeners) :
          /\ listeners[j].delivery = deliveries
          /\ listeners[j].handoff = "timeout"
          /\ \/ /\ listeners[j].cat = "system_audio"
                /\ streams["screen"] > 0
                /\ ListenersOf("screen") = 0
                /\ CallsOf("index_visuals", "screen") = 0
             \/ /\ listeners[j].cat = "screen"
                /\ CallsOf("index_audio", "system_audio") = 1

\* --------------------------------------------------------------- C14
\* C14: a listener thread has put, over its whole life, one connection id
\* on its queue if its connect succeeded and none if the connect failed or
\* is still pending; the id is that of its one socket, which no other
\* listener shares, and nothing is put after the receive loop has ended.
Puts(l) == Len(l.queue) + (IF l.handoff = "taken" THEN 1 ELSE 0)

C14_OneSocketOnePut ==
    \A j \in 1..Len(listeners) :
        /\ listeners[j].ws = 0 => Puts(listeners[j]) = 0
        /\ listeners[j].ws # 0 => Puts(listeners[j]) = 1
        /\ listeners[j].state = "connecting" => listeners[j].ws = 0
        /\ listeners[j].state = "receiving" => listeners[j].ws # 0
        /\ \A i \in 1..Len(listeners[j].queue) :
              listeners[j].queue[i] = listeners[j].ws
        /\ \A k \in 1..Len(listeners) :
              (k # j /\ listeners[j].ws # 0)
              => listeners[k].ws # listeners[j].ws

\* One listener's receive loop ended after its id had been taken, a
\* second one failed to connect, and a third connected after its handler
\* had given up, its id lying on the queue.
C14_Witness ==
    \E a, b, c \in 1..Len(listeners) :
        /\ listeners[a].state = "dead" /\ listeners[a].ws # 0
        /\ listeners[a].handoff = "taken"
        /\ listeners[b].state = "dead" /\ listeners[b].ws = 0
        /\ listeners[c].state = "receiving"
        /\ listeners[c].handoff = "timeout"
        /\ Len(listeners[c].queue) = 1

\* --------------------------------------------------------------- C15
\* C15: a listener thread only moves from connecting to receiving or dead
\* and from receiving to dead; once dead it stays dead with the socket id
\* it had.  The step in which a listener dies adds no listener, changes no
\* other listener, leaves the request handler where it is with its
\* response and failure flag, and leaves every call issued in place; and
\* no category of a delivery ever has a second listener.
C15_DeadListenerStaysDead ==
    [][ /\ \A j \in 1..Len(listeners) :
              /\ Len(listeners') >= j
              /\ listeners[j].state = "dead"
                 => /\ listeners'[j].state = "dead"
                    /\ listeners'[j].ws = listeners[j].ws
              /\ listeners[j].state = "receiving"
                 => listeners'[j].state \in {"receiving", "dead"}
              /\ (listeners[j].state # "dead" /\ listeners'[j].state = "dead")
                 => /\ Len(listeners') = Len(listeners)
                    /\ \A k \in 1..Len(listeners) :
                          k # j => listeners'[k] = listeners[k]
                    /\ UNCHANGED <<hpc, req, resp, aborted, ci, ai, ws_id,
                                   calls, platformEvents, nextWs>>
        /\ \A j, k \in 1..Len(listeners') :
              (/\ listeners'[j].delivery = listeners'[k].delivery
               /\ listeners'[j].cat = listeners'[k].cat)
              => j = k
      ]_vars

\* A listener whose socket carries an indexing pipeline is dead while the
\* handler is busy with a later category, whose listener is receiving; and
\* a listener that never connected is dead as well.
C15_Witness ==
    /\ hpc \in {"start_transcript", "index_audio", "index_visuals"}
    /\ ~aborted
    /\ \E j, k \in 1..Len(listeners) :
          /\ listeners[j].state = "dead" /\ listeners[j].ws # 0
          /\ \E i \in 1..Len(calls) :
                calls[i].ws = listeners[j].ws /\ calls[i].ok
          /\ listeners[k].state = "receiving"
          /\ k = Len(listeners) /\ j < k
    /\ \E m \in 1..Len(listeners) :
          listeners[m].state = "dead" /\ listeners[m].ws = 0

\* --------------------------------------------------------------- C16
\* C16: in a Flask backend, the step that receives a delivery whose event
\* is capture_session.stopping, capture_session.stopped or a name outside
\* the recognised list answers {received: true} and leaves the listeners,
\* the calls issued, the platform's events and the sockets as they were.
C16_InformationalEventsChangeNothing ==
    [][ (/\ hpc = "idle" /\ hpc' # "idle"
         /\ req'.kind = "object"
         /\ req'.event \in {"capture_session.stopping",
                            "capture_session.stopped", "other"})
        => /\ resp' = Ok
           /\ hpc' = "done"
           /\ UNCHANGED <<listeners, calls, platformEvents, nextWs>>
      ]_vars

\* capture_session.stopped has been acknowledged while a listener of an
\* earlier delivery is receiving and its pipeline is in place.
C16_Witness ==
    /\ hpc = "done" /\ resp = Ok /\ ~aborted
    /\ req.event \in {"capture_session.stopping", "capture_session.stopped",
                      "other"}
    /\ \E j \in 1..Len(listeners), i \in 1..Len(calls) :
          /\ listeners[j].state = "receiving"
          /\ calls[i].ws = listeners[j].ws
          /\ calls[i].ok

\* --------------------------------------------------------------- C17
\* C17: every row's insights_status is one of pending, processing, ready
\* and failed, and a step that changes it moves it forward in the order
\* pending, processing, ready or failed.
StatusRank(status) ==
    IF status = "pending" THEN 0
    ELSE IF status = "processing" THEN 1
    ELSE 2

C17_StatusOnlyMovesForward ==
    [][ \A i \in 1..Len(rows) :
          /\ rows'[i].insights_status
                \in {"pending", "processing", "ready", "failed"}
          /\ rows'[i].insights_status # rows[i].insights_status
             => StatusRank(rows'[i].insights_status)
                    > StatusRank(rows[i].insights_status)
      ]_vars

\* --------------------------------------------------------------- C18
\* C18: when a background indexing run ends, its recording is ready or
\* failed, and failed when the run ends in the except-branch: no run ends
\* leaving the status it found or set before.
C18_FailedRunEndsFailed ==
    [][ \A t \in BagToSet(tasks) :
          tasks' = Ended(t)
          => /\ rows'[t.recording_id].insights_status \in {"ready", "failed"}
             /\ t.pc = "except"
                => rows'[t.recording_id].insights_status = "failed"
      ]_vars

\* --------------------------------------------------------------- C19
\* The SDK calls of operation op made for request r.
SdkCallsOf(r, op) == {i \in 1..Len(sdk) : sdk[i].request = r /\ sdk[i].op = op}

\* C19: every POST /init-session request made at most one
\* create_capture_session call and at most one generate_client_token call,
\* and no generate_client_token call when create_capture_session raised.
\* A finished request answered 200 with the session id and the token the
\* two calls returned exactly when both returned, and answered 500 with
\* the message of the call that raised otherwise.
C19_InitSessionCallsOnceNoRetry ==
    /\ \A r \in 1..init_requests :
          /\ Cardinality(SdkCallsOf(r, "create_capture_session")) <= 1
          /\ Cardinality(SdkCallsOf(r, "generate_client_token")) <= 1
          /\ \A i \in SdkCallsOf(r, "generate_client_token") :
                \E k \in SdkCallsOf(r, "create_capture_session") :
                    k < i /\ sdk[k].ok
    /\ ipc = "done"
       => LET created == SdkCallsOf(init_requests, "create_capture_session")
              minted == SdkCallsOf(init_requests, "generate_client_token")
          IN  /\ Cardinality(created) = 1
              /\ init_resp.status \in {200, 500}
              /\ init_resp.status = 200
                 <=> /\ \A k \in created : sdk[k].ok
                     /\ \E i \in minted : sdk[i].ok
              /\ init_resp.status = 200
                 => /\ \E k \in created : init_resp.session_id = sdk[k].value
                    /\ \E i \in minted : init_resp.token = sdk[i].value
                    /\ init_resp.session_id # 0 /\ init_resp.token # 0
                    /\ init_resp.error = "none"
              /\ init_resp.status = 500
                 => /\ init_resp.session_id = 0 /\ init_resp.token = 0
                    /\ \E i \in created \cup minted :
                          ~sdk[i].ok /\ init_resp.error = sdk[i].op
                    /\ (\E k \in created : ~sdk[k].ok) => minted = {}

\* Three requests: the first answered with session and token, the second
\* failed at the token, the third has just failed at the session, with no
\* token call made for it.
C19_Witness ==
    /\ ipc = "done" /\ init_requests = 3
    /\ init_resp.status = 500
    /\ init_resp.error = "create_capture_session"
    /\ SdkCallsOf(3, "generate_client_token") = {}
    /\ \E i \in SdkCallsOf(1, "generate_client_token") : sdk[i].ok
    /\ \E i \in SdkCallsOf(2, "generate_client_token") : ~sdk[i].ok

\* --------------------------------------------------------------- C20
\* The request in hand carries no access token, or one no user row holds.
Unauthenticated == areq.token = 0 \/ areq.token \notin 1..Len(users)

\* C20: whichever of the five endpoints it addresses, a request without an
\* access token or with one that matches no user row is rejected by the
\* step that serves it: status 401, no recording in the body, no
\* videodb_service call, no table written.
C20_UnauthenticatedRequestRejected ==
    [][ (/\ apc \notin {"idle", "done"}
         /\ apc' # apc
         /\ Unauthenticated)
        => /\ apc' = "done"
           /\ aresp'.status = 401
           /\ aresp'.recordings = {}
           /\ UNCHANGED <<rows, users, api_calls>> ]_vars

\* --------------------------------------------------------------- C21
\* C21: the step of an exported delivery that decides on the background
\* task finds the recording row stored with the payload's video id and
\* leaves the table alone; with no user row it schedules nothing, and
\* otherwise it adds one task for that recording, carrying the api key of
\* the user row with the highest id at that moment.
C21_TaskCarriesKeyOfHighestUserId ==
    [][ \A h \in Handlers :
          (rh[h].pc = "schedule" /\ rh'[h].pc # "schedule")
          => /\ rows' = rows
             /\ rh[h].recording.id \in 1..Len(rows)
             /\ rows[rh[h].recording.id].video_id = rh[h].req.video
             /\ rows[rh[h].recording.id].session_id = rh[h].req.sid
             /\ IF users = <<>>
                THEN tasks' = tasks
                ELSE \E t \in BagToSet(tasks') :
                        /\ tasks' = tasks (+) SetToBag({t})
                        /\ t.recording_id = rh[h].recording.id
                        /\ t.video_id = rh[h].req.video
                        /\ t.api_key = users[Len(users)] ]_vars

\* Two users are registered; a task scheduled before the second
\* registration carries the first key, and the delivery just handled has
\* scheduled one with the second key.
C21_Witness ==
    /\ program = "async_recorder_two_users"
    /\ Len(users) = 2
    /\ \E h \in Handlers :
          /\ rh[h].pc = "done" /\ rh[h].branch \in {"created", "updated"}
          /\ \E t \in BagToSet(tasks) :
                t.recording_id = rh[h].recording.id /\ t.api_key = users[2]
    /\ \E t \in BagToSet(tasks) : t.api_key = users[1]

\* --------------------------------------------------------------- C22
\* C22: when settings.WEBHOOK_URL is set as start() is called, start()
\* returns that url and does not go on to start a tunnel: _tunnel and
\* _public_url are unset and is_running() is false after the call, and
\* settings.WEBHOOK_URL is what it was; and as long as start() has returned
\* the pre-set url, they stay so.
C22_PresetUrlSkipsTunnel ==
    /\ [][ (/\ tpc = "startup" /\ tpc' # "startup"
            /\ WEBHOOK_URL \notin {NoUrl, EmptyUrl})
           => /\ start_result' = WEBHOOK_URL
              /\ WEBHOOK_URL' = WEBHOOK_URL
              /\ tpc' # "try_cloudflare"
              /\ tunnel' = NoTunnel
              /\ public_url' = "none"
              /\ ~is_running' ]_vars
    /\ [](start_result = EnvUrl
          => /\ WEBHOOK_URL = EnvUrl
             /\ tunnel = NoTunnel
             /\ public_url = "none"
             /\ ~is_running
             /\ \A i \in 1..Len(tunnel_status) :
                   tunnel_status[i] = [active |-> FALSE,
                                       webhook_url |-> EnvUrl])

\* The server, started with a pre-set url, has answered a status request.
C22_Witness ==
    /\ tpc = "serving"
    /\ start_result = EnvUrl
    /\ WEBHOOK_URL = EnvUrl
    /\ tunnel_status # <<>>

ListenersIn(d, cat) ==
    {j \in 1..Len(listeners) :
        listeners[j].delivery = d /\ listeners[j].cat = cat}
CallsIn(d, op, cat) ==
    {i \in 1..Len(calls) :
        calls[i].delivery = d /\ calls[i].op = op /\ calls[i].cat = cat}

\* What a capture_session.active delivery handled without failure after
\* an earlier delivery has set up, by category.
SecondDeliverySetUp ==
    (hpc = "done" /\ deliveries = 2 /\ req.event = "capture_session.active"
        /\ ~aborted)
    => \A k \in 1..Len(HandledCategories(program)) :
          LET c == HandledCategories(program)[k]
              ops == IF c \in AudioCategories
                     THEN {"start_transcript", "index_audio"}
                     ELSE {"index_visuals"}
              alerts == IF c = "screen" /\ program = "openclaw_backend"
                        THEN Len(ALERTS) ELSE 0
          IN  IF streams[c] = 0
              THEN /\ ListenersIn(2, c) = {}
                   /\ \A op \in ops \cup {"create_alert"} :
                         CallsIn(2, op, c) = {}
              ELSE /\ Cardinality(ListenersIn(2, c)) = 1
                   /\ \A j \in ListenersIn(2, c) :
                         /\ listeners[j].ws # 0
                         /\ \A e \in 1..Len(listeners) :
                               listeners[e].delivery = 1
                               => listeners[e].ws # listeners[j].ws
                         /\ \A op \in ops :
                               /\ Cardinality(CallsIn(2, op, c)) = 1
                               /\ \A i \in CallsIn(2, op, c) :
                                     calls[i].ws = listeners[j].ws
                         /\ Cardinality(CallsIn(2, "create_alert", c)) = alerts
                         /\ \A i \in CallsIn(2, "create_alert", c) :
                               calls[i].ws = listeners[j].ws

\* C24: whatever was delivered before, a capture_session.active delivery
\* goes on to ask the platform for the session, and no other delivery does;
\* handled without failure after an earlier delivery, it has done the full
\* setup its own answers from the platform call for, whatever the earlier
\* delivery left behind: for each category with a stream one listener of
\* its own, on a socket no earlier listener holds, and the indexing calls
\* (and, in the openclaw backend, one alert per configured label) issued
\* again on that socket.
C24_SecondDeliverySetsUpAfresh ==
    /\ [][ (hpc = "idle" /\ hpc' # "idle")
           => (hpc' = "get_capture_session"
               <=> /\ req'.kind = "object"
                   /\ req'.event = "capture_session.active") ]_vars
    /\ []SecondDeliverySetUp

\* Two capture_session.active deliveries handled without failure, the
\* first having left a listener and the calls for the category the second
\* has set up again.
C24_Witness ==
    /\ hpc = "done" /\ deliveries = 2 /\ ~aborted
    /\ req.event = "capture_session.active"
    /\ \E c \in {"system_audio", "screen"} :
          /\ streams[c] > 0
          /\ \E e \in ListenersIn(1, c) :
                /\ listeners[e].handoff = "taken"
                /\ listeners[e].state = "receiving"
          /\ ListenersIn(2, c) # {}
          /\ \A op \in IF c = "screen" THEN {"index_visuals"}
                       ELSE {"start_transcript", "index_audio"} :
                /\ \E i \in CallsIn(1, op, c) : calls[i].ok
                /\ \E i \in CallsIn(2, op, c) : calls[i].ok

\* --------------------------------------------------------------- C25
\* C25: in a capture client with a stop sequence, once the stop condition
\* is observed (the cleanup of apps/quickstart run_capture is entered, or
\* Enter has been pressed in the quickstart client), run_capture comes to
\* an end, whether or not the capture process ever answers the stop and
\* shutdown calls.
C25_StopSequenceTerminates ==
    (\/ program = "quickstart_client" /\ cpc = "stop_capture"
     \/ program = "simple_client" /\ vpc = "stop_session")
    ~> (\/ program = "quickstart_client" /\ cpc = "returned"
        \/ program = "simple_client" /\ vpc \in {"returned", "force_quit"})

\* --------------------------------------------------------------- C26
\* The positions of the calls of an operation among the client's calls.
RemoteCallsOf(op) == {i \in 1..Len(remote) : remote[i].op = op}

\* C26: the cleanup of apps/quickstart run_capture calls stop_capture once
\* (never twice, and once as soon as the stop attempt is over); it calls
\* shutdown at most once, as the call right after a stop_capture that was
\* acknowledged or raised, never after one that timed out; and whatever
\* the outcome of shutdown, the cleanup goes on to cleanup_done.set() and
\* run_capture returns normally.
C26_StopOnceThenShutdownAtMostOnce ==
    /\ Cardinality(RemoteCallsOf("stop_capture")) <= 1
    /\ cpc \in {"sleep", "shutdown", "cleanup_done", "returned"}
       => Cardinality(RemoteCallsOf("stop_capture")) = 1
    /\ Cardinality(RemoteCallsOf("shutdown")) <= 1
    /\ \A i \in RemoteCallsOf("shutdown") :
          /\ i = Len(remote)
          /\ i - 1 \in RemoteCallsOf("stop_capture")
          /\ remote[i - 1].outcome \in {"ok", "raised"}
          /\ cpc \in {"cleanup_done", "returned"}
    /\ (\E i \in RemoteCallsOf("stop_capture") : remote[i].outcome = "timeout")
       => RemoteCallsOf("shutdown") = {}
    /\ cpc = "returned" => cleanup_done

\* run_capture has returned after a stop_capture that raised and a
\* shutdown that timed out.
C26_Witness ==
    /\ cpc = "returned" /\ cleanup_done
    /\ \E i \in RemoteCallsOf("stop_capture") : remote[i].outcome = "raised"
    /\ \E i \in RemoteCallsOf("shutdown") : remote[i].outcome = "timeout"

\* --------------------------------------------------------------- C27
\* C27: the grace period the cleanup has slept after the stop attempt is
\* the one of the outcome the attempt had, and differs from the grace
\* period of either other outcome.
C27_GracePeriodsDiffer ==
    slept # <<>>
    => \E i \in RemoteCallsOf("stop_capture") :
          /\ slept[1] = GracePeriod(remote[i].outcome)
          /\ \A other \in {"ok", "timeout", "raised"} \ {remote[i].outcome} :
                GracePeriod(other) # slept[1]

\* --------------------------------------------------------------- C28
\* The defaults of the running variant that list_channels() reported.
ExistingDefaults ==
    {VariantDefaults(program)[i] : i \in 1..Len(VariantDefaults(program))}
        \cap Found

\* C28: in every client variant, once the channels are enumerated and
\* selected, a session is started with exactly the defaults that exist,
\* also when only some of them exist, and none is started when none does.
C28_SessionStartedWithExistingDefaults ==
    /\ \A i \in 1..Len(remote) :
          /\ remote[i].op = "start_capture_session"
             => /\ remote[i - 1].op = "list_channels"
                /\ remote[i].channels = remote[i - 1].channels
                /\ remote[i].channels # {}
          /\ remote[i].op = "list_channels" /\ remote[i].outcome = "ok"
             => IF remote[i].channels = {}
                THEN RemoteCallsOf("start_capture_session") = {}
                ELSE \/ cpc = "start_capture_session"
                     \/ i + 1 \in RemoteCallsOf("start_capture_session")
    /\ \A i \in 1..Len(vremote) :
          vremote[i].op = "list_channels" /\ vremote[i].outcome = "ok"
          /\ vpc # "store"
          => IF ExistingDefaults = {}
             THEN \A j \in 1..Len(vremote) : vremote[j].op # "start_session"
             ELSE \/ vpc = "start_session"
                  \/ /\ i + 1 \in 1..Len(vremote)
                     /\ vremote[i + 1].op = "start_session"
                     /\ vremote[i + 1].channels = ExistingDefaults

\* --------------------------------------------------------------- C29
\* C29: an exported delivery without exported_video_id, and an exported
\* delivery whose session has no row while a row holds its video_id, are
\* acknowledged with every row as it was, no row added and no indexing
\* task scheduled, in every step of their handling.
C29_DuplicateAndVideolessChangeNothing ==
    [][ \A h \in Handlers :
          LET r == rh'[h].req
          IN  /\ rh'[h] # rh[h] /\ rh'[h].pc # "idle"
              /\ r.kind = "object" /\ r.event = "capture_session.exported"
              /\ \/ r.video = 0
                 \/ /\ rh[h].pc = "lookup_video"
                    /\ \E i \in 1..Len(rows) : rows[i].video_id = r.video
              => /\ rows' = rows
                 /\ tasks' = tasks
                 /\ rh'[h].pc = "done"
                 /\ rh'[h].resp = Ok
                 /\ rh'[h].recording = NoRow
      ]_vars

\* A user is registered and a delivery for a session no row holds, with
\* the video_id of the stored row, has just been acknowledged: still one
\* row, of the other session, and no task for the delivery.
C29_Witness ==
    \E h \in Handlers :
        /\ rh[h].pc = "done" /\ rh[h].resp = Ok
        /\ rh[h].branch = "duplicate"
        /\ users # <<>>
        /\ Len(rows) = 1
        /\ rows[1].video_id = rh[h].req.video
        /\ rows[1].session_id # rh[h].req.sid

\* --------------------------------------------------------------- C30
\* The create_alert calls of delivery d, in the order they were issued,
\* and the platform events with a label.
AlertsIn(d) ==
    SelectSeq(calls, LAMBDA c : c.op = "create_alert" /\ c.delivery = d)
EventsLabelled(label) ==
    {i \in 1..Len(platformEvents) : platformEvents[i].label = label}

\* C30: setup_alerts creates an event for a label only when the platform
\* holds none with it and otherwise takes the id of the one it holds; the
\* platform never holds two events with one configured label; the k-th
\* alert of a delivery is attached to the event of the k-th configured
\* label, and a setup_alerts run that reaches its end has attached one
\* alert per configured label.
C30_OneEventPerLabelAlertsInOrder ==
    /\ [][ hpc = "setup_alerts" /\ hpc' = "create_alert"
           => IF EventsLabelled(ALERTS[ai]) = {}
              THEN /\ platformEvents' =
                         Append(platformEvents, platformEvents'[Len(platformEvents')])
                   /\ platformEvents'[Len(platformEvents')].label = ALERTS[ai]
                   /\ platformEvents'[Len(platformEvents')].event_id = event_id'
              ELSE /\ platformEvents' = platformEvents
                   /\ \E i \in EventsLabelled(ALERTS[ai]) :
                         platformEvents[i].event_id = event_id'
         ]_vars
    /\ [](/\ \A k \in 1..Len(ALERTS) :
                Cardinality(EventsLabelled(ALERTS[k])) <= 1
          /\ \A d \in 1..deliveries :
                /\ Len(AlertsIn(d)) <= Len(ALERTS)
                /\ \A k \in 1..Len(AlertsIn(d)) :
                      /\ \E i \in EventsLabelled(ALERTS[k]) :
                            platformEvents[i].event_id = AlertsIn(d)[k].event
                      /\ k < Len(AlertsIn(d)) => AlertsIn(d)[k].ok
          /\ program = "openclaw_backend" /\ hpc = "setup_alerts"
             /\ ai > Len(ALERTS)
             => /\ Len(AlertsIn(deliveries)) = Len(ALERTS)
                /\ \A k \in 1..Len(ALERTS) : AlertsIn(deliveries)[k].ok)

\* The setup_alerts run of a second delivery has reached its end, after a
\* first delivery attached both alerts: two events, both reused.
C30_Witness ==
    /\ program = "openclaw_backend"
    /\ hpc = "setup_alerts" /\ ai > Len(ALERTS)
    /\ deliveries = 2
    /\ Len(platformEvents) = Len(ALERTS)
    /\ Len(AlertsIn(1)) = Len(ALERTS) /\ AlertsIn(1)[Len(ALERTS)].ok
    /\ \A k \in 1..Len(ALERTS) :
          AlertsIn(2)[k].event = AlertsIn(1)[k].event

\* --------------------------------------------------------------- C31
\* C31 as stated: once start() has returned, the runtime file has been
\* written exactly once, with the value start() returned (null for None).
C31_RuntimeFileWrittenOnce ==
    tpc \in {"serving", "stopped"}
    => /\ Len(runtime_json) = 1
       /\ runtime_json[1] = start_result

\* C31, amended: start() reaches write_runtime_config once on every path
\* and returns only through it; the file is written at most once, by that
\* call; what is written is settings.WEBHOOK_URL, which is the value
\* start() returns when it returns a url and is null or the empty pre-set
\* string when it returns None.
C31_RuntimeFileWrittenAtMostOnce ==
    /\ [][ /\ tpc' = "serving" /\ tpc # "serving"
              => tpc = "write_runtime_config"
           /\ tpc = "write_runtime_config" /\ tpc' # tpc
              => /\ tpc' = "serving"
                 /\ \/ runtime_json' = runtime_json
                    \/ runtime_json' = Append(runtime_json, WEBHOOK_URL)
           /\ tpc # "write_runtime_config" => runtime_json' = runtime_json
         ]_vars
    /\ [](/\ Len(runtime_json) <= 1
          /\ tpc \in {"startup", "try_cloudflare", "write_runtime_config"}
             => runtime_json = <<>>
          /\ tpc \in {"write_runtime_config", "serving", "stopped"}
             => start_result \in {NoUrl, EnvUrl, TunnelUrl}
          /\ \A i \in 1..Len(runtime_json) :
                /\ runtime_json[i] = WEBHOOK_URL
                /\ IF start_result = NoUrl
                   THEN runtime_json[i] \in {NoUrl, EmptyUrl}
                   ELSE runtime_json[i] = start_result)

\* start() found the setting empty, got no url from the tunnel, returned
\* None, and the file holds the empty string.
C31_Witness ==
    /\ tpc = "serving"
    /\ start_result = NoUrl
    /\ tunnel.object
    /\ runtime_json = <<EmptyUrl>>

\* --------------------------------------------------------------- C32
\* C32: no two recording rows hold the same video_id, and no two hold the
\* same session_id unless it is null.
C32_NoTwoRowsShareVideoOrSession ==
    \A i, j \in 1..Len(rows) :
        i # j => /\ rows[i].video_id # rows[j].video_id
                 /\ rows[i].session_id # 0
                    => rows[i].session_id # rows[j].session_id

\* --------------------------------------------------------------- C33
\* C33: a listener thread in its receive loop has had its connection id
\* taken by the handler that started it, or that handler is still waiting
\* for the id: no listener whose handler gave up is in the receive loop.
C33_ReceivingListenerWasTaken ==
    \A j \in 1..Len(listeners) :
        listeners[j].state = "receiving"
        => \/ listeners[j].handoff = "taken"
           \/ /\ listeners[j].handoff = "waiting"
              /\ j = Current
              /\ hpc = "queue_get"

\* --------------------------------------------------------------- C34
\* C34: a Flask backend answers every delivery whose payload is a JSON
\* object with {received: true} and a success status, whatever the event
\* and whether or not the handling of capture_session.active failed; the
\* recorder answers a delivery whose handling raised (a payload that is no
\* object, a null event) with HTTP 500.
C34_FlaskAlwaysAcknowledgesRecorderFails ==
    /\ (hpc = "done" /\ req.kind = "object") => resp = Ok
    /\ \A h \in Handlers :
          (/\ rh[h].pc = "done"
           /\ \/ rh[h].req.kind = "nonobject"
              \/ rh[h].req.kind = "object" /\ rh[h].req.event = "null")
          => rh[h].resp = Error(500)

\* --------------------------------------------------------------- C35
\* The positions of run_capture inside its try-body.
BodyPositions ==
    {"request_permission_microphone", "request_permission_screen_capture",
     "list_channels", "start_capture_session", "wait"}

\* C35: every step that leaves the try-body of run_capture, whether a call
\* raised, no channel was found or the wait ended, goes to the stop attempt,
\* none having been made before; and once past it, the client has made
\* exactly one stop attempt, after every call of the body, whether or not
\* start_capture_session was ever called.
C35_StopAttemptedOnceOnEveryExit ==
    /\ [][ (cpc \in BodyPositions /\ cpc' \notin BodyPositions)
           => /\ cpc' = "stop_capture"
              /\ \A i \in 1..Len(remote') : remote'[i].op # "stop_capture"
         ]_vars
    /\ [](/\ cpc \in BodyPositions \cup {"stop_capture"}
             => RemoteCallsOf("stop_capture") = {}
          /\ cpc \notin BodyPositions \cup {"stop_capture"}
             => \E i \in 1..Len(remote) :
                   /\ RemoteCallsOf("stop_capture") = {i}
                   /\ \A j \in 1..Len(remote) :
                         remote[j].op \notin {"stop_capture", "shutdown"}
                         => j < i)

\* run_capture has returned after request_permission raised: no channel
\* was listed, no session started, and one stop attempt was made.
C35_Witness ==
    /\ cpc = "returned"
    /\ RemoteCallsOf("start_capture_session") = {}
    /\ RemoteCallsOf("list_channels") = {}
    /\ remote[1].outcome = "raised"
    /\ Cardinality(RemoteCallsOf("stop_capture")) = 1

\* --------------------------------------------------------------- C36
\* C36: whenever settings.WEBHOOK_URL holds the tunnel-derived url, and
\* whenever start() has returned it, a tunnel is running (is_running()),
\* and after stop() is_running() is false and get_url() is None.
C36_TunnelUrlMeansTunnelRuns ==
    /\ WEBHOOK_URL = TunnelUrl => is_running
    /\ tpc = "stopped" => ~is_running /\ public_url = "none"

\* --------------------------------------------------------------- C37
\* C37: at any time, at most one background indexing task is scheduled or
\* running for a recording id.
C37_OneIndexingTaskPerRecording ==
    \A t, u \in BagToSet(tasks) :
        t.recording_id = u.recording_id
        => t = u /\ CopiesIn(t, tasks) = 1

====
